---- MODULE Spec2Model ----
(***************************************************************************)
(* Castle Breaker: the game canvas (structure, projectiles, explosions,    *)
(* per-frame loop), the charge/launch input controller and the session     *)
(* state kept by App.                                                      *)
(*                                                                         *)
(* Units.  Lengths, the components of unit vectors, velocities and         *)
(* impulses are integers in thousandths (1 world unit = 1000).  Times are  *)
(* milliseconds.  A launch power is an integer in units of 1/PowerUnit.    *)
(* Quotients the code leaves as floating-point fractions are kept exact as *)
(* records [num, den].                                                     *)
(***************************************************************************)
EXTENDS Integers, Sequences, FiniteSets, Bags, TLC

VARIABLES
    physicsObjects,            \* physicsObjectsRef.current : structure entities
    projectiles,               \* projectilesRef.current    : active projectiles
    explosionParticleSystems,  \* explosionParticleSystemsRef.current
    worldBodies,               \* bag of the bodies registered in the CANNON world (ground excluded)
    sceneMeshes,               \* bag of the entity meshes in the THREE scene (ground, lights and point clouds excluded)
    mounted,                   \* worldRef.current and sceneRef.current are set (init has run, its cleanup has not)
    resetLog,                  \* the resetLevel calls made in a row since the latest other canvas call, last two kept
    frameRafPending,           \* an animate callback is scheduled (animationFrameIdRef)
    lastCallTime,              \* lastCallTimeRef.current
    now,                       \* performance.now() as read by the latest callback
    nextProjId,                \* stands for the unique suffix of `proj_..._${Date.now()}_${Math.random()}`
    fallenEvents,              \* onBlockFallen calls made by the most recent frame, in order
    removedParents,            \* removedParents of the most recent frame without the
                               \* submunitions: the launched projectiles its sweep removed,
                               \* as the sweep saw them
    emitted,                   \* per block id: onBlockFallen calls since the structure was loaded
    explosionLog,              \* per launched projectile: the handleExplosion calls it caused
    spawnCount,                \* per launched projectile: submunitions spawned from it
    blasts,                    \* the handleExplosion calls made since the latest world.step
    isChargingActive,          \* isChargingActiveRef.current
    chargeStartTime,           \* chargeStartTimeRef.current
    chargeRafPending,          \* a chargeUpdateLoop callback is scheduled (chargeUpdateRafId)
    upListening,               \* handlePointerUpGlobal is registered on window
    chargeProgress,            \* the latest onChargeProgress call: charge start, time, power,
                               \* and canAttemptChargeRef.current at the call
    chargeComplete,            \* the latest onChargeComplete call: charge start, time, powers,
                               \* and canAttemptChargeRef.current at the call
    canAttemptChargeRef,       \* canAttemptChargeRef.current
    isDelegateModeActiveRef,   \* isDelegateModeActiveRef.current
    isDraggingCameraRef,       \* isDraggingCameraRef.current
    chargeStarts,              \* onChargeStart calls made so far
    chargeCompletes,           \* onChargeComplete calls made so far
    lastPointerEvent,          \* the latest pointer event handled; for a press, whether it began a charge
    gameState,                 \* App: gameState, with every queued update applied
    fallenBlockIds,            \* App: fallenBlockIds, with every queued update applied
    rendered,                  \* App: the state of the latest render, as seen by
                               \* gameStateRef.current and by the handlers' closures
    customLevels,              \* App: customLevels, the library behind allPlayableLevels
    delegate                   \* App: auto-play: isDelegateModeActive (and its ref), whether
                               \* the editor or the library is open, whether the firing
                               \* interval is set, and the pending 300 ms launch timeouts

canvasVars == <<physicsObjects, projectiles, explosionParticleSystems, worldBodies,
                sceneMeshes, mounted, resetLog, frameRafPending, lastCallTime, now, nextProjId, fallenEvents, emitted,
                explosionLog, spawnCount, blasts, removedParents>>

\* The canvas without its clock
canvasRest == <<physicsObjects, projectiles, explosionParticleSystems, worldBodies,
                sceneMeshes, mounted, resetLog, frameRafPending, lastCallTime, nextProjId, fallenEvents, emitted,
                explosionLog, spawnCount, blasts, removedParents>>

\* The refs read by the gate of handlePointerDown
gateVars == <<canAttemptChargeRef, isDelegateModeActiveRef, isDraggingCameraRef>>

chargeVars == <<isChargingActive, chargeStartTime, chargeRafPending, upListening,
                chargeProgress, chargeComplete, gateVars, chargeStarts, chargeCompletes,
                lastPointerEvent>>

appVars == <<gameState, fallenBlockIds, rendered, customLevels, delegate>>

-----------------------------------------------------------------------------
(* Bounds of the model *)

MaxLaunches == 2      \* launchProjectile calls explored per run
MaxTime == 5000       \* performance.now() is explored up to this value
MaxContacts == 2      \* collide events delivered to one explosive body in one world.step
MaxClusterLaunches == 1   \* cluster launches explored per run of the cluster life cycle
MaxBlasts == 2        \* handleExplosion calls explored between two world.steps

-----------------------------------------------------------------------------
(* constants.ts *)

BLOCK_SIZE == 1000
PROJECTILE_RADIUS == 250
PROJECTILE_VELOCITY_MULTIPLIER == 25
HEAVY_PROJECTILE_RADIUS == 350
EXPLOSIVE_PROJECTILE_RADIUS == 280
EXPLOSION_RADIUS == 3500
EXPLOSION_STRENGTH == 3600
EXPLOSIVE_PROJECTILE_LIFESPAN_MS == 3000
EXPLOSION_PARTICLE_LIFESPAN_MS == 800
CLUSTER_PROJECTILE_RADIUS == 300
CLUSTER_SPLIT_DELAY_MS == 1000
SUBMUNITION_COUNT == 5
SUBMUNITION_MASS == 2
SUBMUNITION_SPREAD_IMPULSE == 3
SUBMUNITION_LIFESPAN_MS == 5000
MAX_CHARGE_DURATION_MS == 1500

\* Launch powers are counted in units of 1/PowerUnit, so that
\* elapsedTime / MAX_CHARGE_DURATION_MS is an exact integer number of units.
PowerUnit == 2 * MAX_CHARGE_DURATION_MS
MAX_LAUNCH_POWER == 1 * PowerUnit
MIN_LAUNCH_POWER == PowerUnit \div 10

\* Thresholds written as literals in GameCanvas
DROP_THRESHOLD == (BLOCK_SIZE * 375) \div 1000     \* BLOCK_SIZE * 0.375
TILT_THRESHOLD == 500                               \* bodyUpDirection.y < 0.5
FLOOR_Y == -10000                                   \* position.y < -10
RESTING_VELOCITY_SQ == 10000                        \* velocity.lengthSquared() < 0.01
IMPACT_THRESHOLD == 1000                            \* |impact velocity along normal| > 1.0
LAUNCH_CLEARANCE == 500                             \* radius + 0.5 + BLOCK_SIZE / 2

POINTS_PER_BLOCK == 10
POINTS_PER_KING == 100
STANDARD_DEFAULT_COUNT == 5     \* PROJECTILE_TYPES_CONFIG[...].defaultCount
HEAVY_DEFAULT_COUNT == 3
EXPLOSIVE_DEFAULT_COUNT == 2
CLUSTER_DEFAULT_COUNT == 2

ProjectileType == {"STANDARD", "HEAVY", "EXPLOSIVE", "CLUSTER"}
BlockShape == {"cube", "cylinder", "sphere", "cube_2x1x1", "cube_3x1x1"}

NoLifeSpan == 0      \* lifeSpan: undefined (falsy in `proj.lifeSpan && proj.creationTime`)

-----------------------------------------------------------------------------
(* Vectors (CANNON.Vec3) and exact fractions *)

Vec(x, y, z) == [x |-> x, y |-> y, z |-> z]
ZeroVec == Vec(0, 0, 0)
Vsub(a, b) == Vec(a.x - b.x, a.y - b.y, a.z - b.z)
Vadd(a, b) == Vec(a.x + b.x, a.y + b.y, a.z + b.z)
LengthSquared(v) == v.x * v.x + v.y * v.y + v.z * v.z

RECURSIVE SqrtBetween(_, _, _)
SqrtBetween(n, lo, hi) ==
    IF lo >= hi THEN lo
    ELSE LET mid == (lo + hi + 1) \div 2
         IN  IF mid * mid <= n THEN SqrtBetween(n, mid, hi)
                               ELSE SqrtBetween(n, lo, mid - 1)

\* Math.sqrt on the thousandths grid, rounded down.  For an integer radius r,
\* Length(v) < r exactly when the real length is below r.
ISqrt(n) == SqrtBetween(n, 0, 46340)
Length(v) == ISqrt(LengthSquared(v))

Abs(n) == IF n < 0 THEN -n ELSE n

RECURSIVE GCD(_, _)
GCD(a, b) == IF b = 0 THEN a ELSE GCD(b, a % b)

\* The fraction n / d (d > 0), in lowest terms
Frac(n, d) == LET g == GCD(Abs(n), d) IN [num |-> n \div g, den |-> d \div g]
FracEq(a, b) == a.num = b.num /\ a.den = b.den
FracIsZero(a) == a.num = 0
\* Math.max(0, f) for a fraction with positive denominator
FracMax0(a) == IF a.num < 0 THEN Frac(0, a.den) ELSE a

\* Vec3.normalize(): the vector divided by its length; a zero-length vector is
\* left as the zero vector.  The unit vector is kept as the exact quotient v / n.
Normalize(v) ==
    IF Length(v) > 0 THEN [v |-> v, n |-> Length(v)]
                     ELSE [v |-> ZeroVec, n |-> 1]

\* Vec3.scale(magnitude) of a normalised vector: the impulse handed to applyImpulse
ScaleUnit(u, magnitude) == [dir |-> u, mag |-> magnitude]

\* Euclidean norm of an applied impulse: |v / n| * mag, which is mag unless the
\* direction degenerated to the zero vector.
ImpulseNorm(imp) == IF imp.dir.v = ZeroVec THEN Frac(0, 1) ELSE imp.mag

-----------------------------------------------------------------------------
(* Level configurations (types.ts: BlockConfig, LevelConfiguration) *)

BlockConf(id, x, y, z, shape, isKing) ==
    [id |-> id, x |-> x, y |-> y, z |-> z, shape |-> shape, isKing |-> isKing]

\* A one-block level for the projectile life cycle: the golden cube at the origin
LevelKing ==
    << BlockConf("king", 0, BLOCK_SIZE \div 2, 0, "cube", TRUE) >>

\* A two-block level for fall detection: a sphere under a golden cube.
LevelSphereCube ==
    << BlockConf("ball", 0, BLOCK_SIZE \div 2, 0, "sphere", FALSE),
       BlockConf("king", 0, (3 * BLOCK_SIZE) \div 2, 0, "cube", TRUE) >>

\* A level without a golden block, of one cylinder.
LevelNoKing ==
    << BlockConf("post", 0, BLOCK_SIZE \div 2, 0, "cylinder", FALSE) >>

BlockIds == {"king", "ball", "post"}

SeqMap(Op(_), s) == [i \in DOMAIN s |-> Op(s[i])]

\* F applied to the value of x: arguments are evaluated before the call
Strict(F(_), x) == CHOOSE r \in { F(v) : v \in {x} } : TRUE
Range(s) == {s[i] : i \in DOMAIN s}

BlockHandle(id) == <<"block", id>>
ProjHandle(id) == <<"projectile", id>>

\* The handles of a list of structure entities, and of a list of projectiles
BlockHandles(objs) == [i \in DOMAIN objs |-> BlockHandle(objs[i].id)]
ProjHandles(projs) == [i \in DOMAIN projs |-> ProjHandle(projs[i].id)]

-----------------------------------------------------------------------------
(* The physics world and the scene as a pair of bags: reg.bodies and reg.meshes *)

\* A variant of cleanUpPhysicsObject that leaves the body in the world
CleanUpPhysicsObjectMeshOnly(reg, handle) ==
    [reg EXCEPT !.meshes = @ (-) SetToBag({handle})]

\* cleanUpPhysicsObject: world.removeBody and scene.remove, each a no-op for
\* an object that is not registered
CleanUpPhysicsObject(reg, handle) ==
    [ bodies |-> reg.bodies (-) SetToBag({handle}),
      meshes |-> reg.meshes (-) SetToBag({handle}) ]

\* list.forEach(obj => cleanUpPhysicsObject(obj, world, scene))
RECURSIVE CleanUpEach(_, _)
CleanUpEach(reg, handles) ==
    IF handles = << >> THEN reg
    ELSE CleanUpEach(CleanUpPhysicsObject(reg, Head(handles)), Tail(handles))

\* scene.add(mesh) and world.addBody(body) of one new entity
AddEntity(reg, handle) ==
    [ bodies |-> reg.bodies (+) SetToBag({handle}),
      meshes |-> reg.meshes (+) SetToBag({handle}) ]

RECURSIVE AddEach(_, _)
AddEach(reg, handles) ==
    IF handles = << >> THEN reg
    ELSE AddEach(AddEntity(reg, Head(handles)), Tail(handles))

\* A world and a scene holding nothing but the ground
EmptyRegistry == [bodies |-> EmptyBag, meshes |-> EmptyBag]

-----------------------------------------------------------------------------
(* Structure Manager *)

\* createBlockVisualAndPhysics: the entity of one block definition.  The body
\* starts at the configured centre, upright (identity quaternion) and awake.
CreateBlockVisualAndPhysics(blockConf) ==
    [ id        |-> blockConf.id,
      isKing    |-> blockConf.isKing,
      initialY  |-> blockConf.y,
      isFallen  |-> FALSE,
      shape     |-> blockConf.shape,
      body      |-> [ position   |-> Vec(blockConf.x, blockConf.y, blockConf.z),
                      upY        |-> 1000,
                      sleepState |-> "AWAKE",
                      impulses   |-> << >> ] ]

\* createStructure: the structure entities after loading levelConfig
CreateStructure(levelConfig) == SeqMap(CreateBlockVisualAndPhysics, levelConfig)

\* A variant of createStructure that builds without disposing of the old entities
CreateStructureKeepingOld(objs, reg, levelConfig) ==
    LET built == CreateStructure(levelConfig)
    IN  [ objs      |-> built,
          atRebuild |-> reg,
          reg       |-> AddEach(reg, BlockHandles(built)) ]

\* A variant of createStructure that creates the new entities first and
\* disposes of the old ones afterwards
CreateStructureBuildFirst(objs, reg, levelConfig) ==
    LET built == CreateStructure(levelConfig)
    IN  [ objs      |-> built,
          atRebuild |-> reg,
          reg       |-> CleanUpEach(AddEach(reg, BlockHandles(built)), BlockHandles(objs)) ]

\* createStructure on the world and scene reg holding the entities objs: the
\* old entities are cleaned up, then one entity per block is created and
\* registered.  atRebuild is the world and scene between the two loops.
CreateStructureInWorld(objs, reg, levelConfig) ==
    LET cleared == CleanUpEach(reg, BlockHandles(objs))
        built   == CreateStructure(levelConfig)
    IN  [ objs      |-> built,
          atRebuild |-> cleared,
          reg       |-> AddEach(cleared, BlockHandles(built)) ]

\* A lookup that falls back on the first standing block when no golden
\* block stands
GetGoldenBlockPositionOrFirst(objs) ==
    LET golden   == {i \in DOMAIN objs : objs[i].isKing /\ ~objs[i].isFallen}
        standing == {i \in DOMAIN objs : ~objs[i].isFallen}
        first(S) == CHOOSE i \in S : \A j \in S : i <= j
    IN  IF golden # {} THEN << objs[first(golden)].body.position >>
        ELSE IF standing # {} THEN << objs[first(standing)].body.position >>
        ELSE << >>

\* getGoldenBlockPosition: the position of the first golden block that has
\* not fallen, as a one-element sequence; << >> stands for null
GetGoldenBlockPosition(objs) ==
    LET golden   == {i \in DOMAIN objs : objs[i].isKing /\ ~objs[i].isFallen}
        first(S) == CHOOSE i \in S : \A j \in S : i <= j
    IN  IF golden # {} THEN << objs[first(golden)].body.position >> ELSE << >>

-----------------------------------------------------------------------------
(* Explosion Effect Engine *)

\* A variant of the forEach body that applies the impulse without waking the body
ExplodeObjectNoWake(obj, position, explosionRadius, explosionStrength) ==
    LET distVec  == Vsub(obj.body.position, position)
        distance == Length(distVec)
    IN  IF distance < explosionRadius
        THEN [obj EXCEPT !.body.impulses =
                 Append(@, ScaleUnit(Normalize(distVec),
                                     Frac(explosionStrength * (explosionRadius - distance),
                                          explosionRadius)))]
        ELSE obj

\* handleExplosion, the body of physicsObjectsRef.current.forEach for one entity
ExplodeObject(obj, position, explosionRadius, explosionStrength) ==
    LET distVec  == Vsub(obj.body.position, position)
        distance == Length(distVec)
    IN  IF distance < explosionRadius
        THEN LET strengthFactor   == FracMax0(Frac(explosionRadius - distance, explosionRadius))
                 impulseMagnitude == Frac(explosionStrength * strengthFactor.num, strengthFactor.den)
                 impulse          == ScaleUnit(Normalize(distVec), impulseMagnitude)
             IN  [obj EXCEPT !.body.impulses = Append(@, impulse),
                             !.body.sleepState =
                                 IF @ = "SLEEPING" THEN "AWAKE" ELSE @]
        ELSE obj

\* handleExplosion(position, radius, strength) applied to the frame state st:
\* one particle system is pushed and every structure entity is visited.
\* The active projectiles are not visited.
HandleExplosion(st, position, explosionRadius, explosionStrength) ==
    [st EXCEPT
        !.systems = Append(@, [creationTime |-> st.time]),
        !.blasts  = Append(@, [position |-> position, radius |-> explosionRadius,
                               strength |-> explosionStrength]),
        !.objs    = [i \in DOMAIN @ |->
                        ExplodeObject(@[i], position, explosionRadius, explosionStrength)]]

-----------------------------------------------------------------------------
(* Projectile Lifecycle Manager *)

\* Launched projectile n has id <<n>>; its i-th submunition has id <<n, i>>
\* (`sub_${proj.id}_${i}`)
ParentOf(id) == id[1]

\* A launch speed that does not depend on the charge
FinalVelocityFull(launchPower) == PROJECTILE_VELOCITY_MULTIPLIER * 1000

\* finalVelocity of launchProjectile, in thousandths per second, for a
\* launchPower in units of 1/PowerUnit
FinalVelocity(launchPower) ==
    (PROJECTILE_VELOCITY_MULTIPLIER * launchPower * 1000) \div PowerUnit

\* The record launchProjectile pushes.  camDir is the camera's unit view
\* direction, camPos its position.  body.impulses lists the impulses
\* handleExplosion has applied to the body since the latest world.step.
NewProjectile(n, projectileType, launchPower, camPos, camDir, t) ==
    LET radius == CASE projectileType = "HEAVY"     -> HEAVY_PROJECTILE_RADIUS
                    [] projectileType = "EXPLOSIVE" -> EXPLOSIVE_PROJECTILE_RADIUS
                    [] projectileType = "CLUSTER"   -> CLUSTER_PROJECTILE_RADIUS
                    [] OTHER                        -> PROJECTILE_RADIUS
        lifeSpan == CASE projectileType = "EXPLOSIVE" -> EXPLOSIVE_PROJECTILE_LIFESPAN_MS
                      [] projectileType = "CLUSTER"   -> CLUSTER_SPLIT_DELAY_MS
                      [] OTHER                        -> NoLifeSpan
        launchOffset  == radius + LAUNCH_CLEARANCE + BLOCK_SIZE \div 2
        finalVelocity == FinalVelocity(launchPower)
        along(c, len) == (c * len) \div 1000
    IN  [ id             |-> <<n>>,
          projectileType |-> projectileType,
          lifeSpan       |-> lifeSpan,
          creationTime   |-> t,
          hasSplit       |-> FALSE,
          isSubmunition  |-> FALSE,
          listening      |-> projectileType = "EXPLOSIVE",
          body |-> [ position   |-> Vec(camPos.x + along(camDir.x, launchOffset),
                                        camPos.y + along(camDir.y, launchOffset),
                                        camPos.z + along(camDir.z, launchOffset)),
                     velocity   |-> Vec(along(camDir.x, finalVelocity),
                                        along(camDir.y, finalVelocity),
                                        along(camDir.z, finalVelocity)),
                     sleepState |-> "AWAKE",
                     impulses   |-> << >> ] ]

\* The i-th submunition of a splitting cluster projectile
NewSubmunition(proj, i, spreadDir, currentTime) ==
    [ id             |-> <<ParentOf(proj.id), i>>,
      projectileType |-> "STANDARD",
      lifeSpan       |-> SUBMUNITION_LIFESPAN_MS,
      creationTime   |-> currentTime,
      hasSplit       |-> FALSE,
      isSubmunition  |-> TRUE,
      listening      |-> FALSE,
      body |-> [ position   |-> proj.body.position,
                 velocity   |-> Vadd(proj.body.velocity,
                                     Vec((spreadDir.x * SUBMUNITION_SPREAD_IMPULSE) \div SUBMUNITION_MASS,
                                         (spreadDir.y * SUBMUNITION_SPREAD_IMPULSE) \div SUBMUNITION_MASS,
                                         (spreadDir.z * SUBMUNITION_SPREAD_IMPULSE) \div SUBMUNITION_MASS)),
                 sleepState |-> "AWAKE",
                 impulses   |-> << >> ] ]

\* `expired` of the projectile loop
Expired(proj, currentTime) ==
    /\ proj.lifeSpan # NoLifeSpan
    /\ proj.creationTime # 0
    /\ (currentTime - proj.creationTime) > proj.lifeSpan

\* `!proj.projectileType`: the enum values are non-empty strings, hence truthy
LacksProjectileType(proj) == proj.projectileType \notin ProjectileType

Resting(body) ==
    body.sleepState = "SLEEPING" /\ LengthSquared(body.velocity) < RESTING_VELOCITY_SQ

\* A removal decision without the lifespan of the submunitions
ShouldRemoveNoLifespan(proj, expired) ==
    IF proj.body.position.y < FLOOR_Y THEN TRUE
    ELSE IF proj.hasSplit THEN TRUE
    ELSE IF Resting(proj.body) THEN LacksProjectileType(proj) \/ proj.isSubmunition
    ELSE FALSE

\* A removal decision that takes out every resting projectile, whatever its type
ShouldRemoveAnyResting(proj, expired) ==
    IF proj.body.position.y < FLOOR_Y THEN TRUE
    ELSE IF proj.hasSplit THEN TRUE
    ELSE IF expired /\ proj.isSubmunition THEN TRUE
    ELSE Resting(proj.body)

\* `shouldRemove` of the removal sweep, for a projectile after its transition
ShouldRemove(proj, expired) ==
    IF proj.body.position.y < FLOOR_Y THEN TRUE
    ELSE IF proj.hasSplit THEN TRUE
    ELSE IF expired /\ proj.isSubmunition THEN TRUE
    ELSE IF Resting(proj.body) THEN LacksProjectileType(proj) \/ proj.isSubmunition
    ELSE FALSE

\* A variant of the collide handler without the hasSplit guard and without
\* the removal of the listener
OnCollideExplosiveUnguarded(st, i, contact) ==
    IF st.projs[i].listening /\ contact.kind = "block" /\ Abs(contact.impact) > IMPACT_THRESHOLD
    THEN [HandleExplosion(st, st.projs[i].body.position, EXPLOSION_RADIUS, EXPLOSION_STRENGTH)
             EXCEPT !.projs[i].hasSplit = TRUE,
                    !.explosionLog[ParentOf(st.projs[i].id)] = Append(@, "collide")]
    ELSE st

\* A collide handler that detonates on a hard contact with any body
OnCollideExplosiveAnyBody(st, i, contact) ==
    LET proj == st.projs[i]
    IN  IF ~proj.listening THEN st
        ELSE IF proj.hasSplit
             THEN [st EXCEPT !.projs[i].listening = FALSE]
        ELSE IF Abs(contact.impact) > IMPACT_THRESHOLD
             THEN [HandleExplosion(st, proj.body.position,
                                   EXPLOSION_RADIUS, EXPLOSION_STRENGTH)
                      EXCEPT !.projs[i].hasSplit = TRUE,
                             !.projs[i].listening = FALSE,
                             !.explosionLog[ParentOf(proj.id)] = Append(@, "collide")]
        ELSE st

\* onCollideExplosive for projectile i of st.projs and one collide event
OnCollideExplosive(st, i, contact) ==
    LET proj == st.projs[i]
        isBlock == contact.kind = "block" /\ contact.idx \in DOMAIN st.objs
    IN  IF ~proj.listening THEN st
        ELSE IF proj.hasSplit
             THEN [st EXCEPT !.projs[i].listening = FALSE]
        ELSE IF isBlock /\ Abs(contact.impact) > IMPACT_THRESHOLD
             THEN [HandleExplosion(st, proj.body.position,
                                   EXPLOSION_RADIUS, EXPLOSION_STRENGTH)
                      EXCEPT !.projs[i].hasSplit = TRUE,
                             !.projs[i].listening = FALSE,
                             !.explosionLog[ParentOf(proj.id)] = Append(@, "collide")]
        ELSE st

\* The collide events of one body, in order
RECURSIVE DeliverContacts(_, _, _)
DeliverContacts(st, i, contacts) ==
    IF contacts = << >> THEN st
    ELSE Strict(LAMBDA s : DeliverContacts(s, i, Tail(contacts)),
                OnCollideExplosive(st, i, Head(contacts)))

\* The collide events world.step dispatches, body by body
RECURSIVE DispatchCollisions(_, _, _)
DispatchCollisions(st, i, contactsOf) ==
    IF i > Len(st.projs) THEN st
    ELSE Strict(LAMBDA s : DispatchCollisions(s, i + 1, contactsOf),
                DeliverContacts(st, i, contactsOf[i]))

-----------------------------------------------------------------------------
(* Game Loop Orchestrator: one frame of animate *)

\* What world.step leaves in a structure body: the physics engine is outside
\* the repository, so the centre's drop below its initial height, the world-space
\* y of the body's up axis and the sleep state are inputs.  The impulses applied
\* earlier have been integrated into the motion.
StepBlock(obj, o) ==
    [obj EXCEPT !.body = [ position   |-> Vec(obj.body.position.x,
                                              obj.initialY - o.drop,
                                              obj.body.position.z),
                           upY        |-> o.upY,
                           sleepState |-> o.sleepState,
                           impulses   |-> << >> ]]

StepProjectile(proj, o) ==
    [proj EXCEPT !.body = [ position   |-> o.position,
                            velocity   |-> o.velocity,
                            sleepState |-> o.sleepState,
                            impulses   |-> << >> ]]

\* Variants of fall detection with one of its conditions altered
FallenEntity(obj) == <<[obj EXCEPT !.isFallen = TRUE], << <<obj.id, obj.isKing>> >> >>

\* ... the isFallen guard dropped
DetectFallUnguarded(obj) ==
    IF obj.body.position.y < (obj.initialY - DROP_THRESHOLD)
       \/ (obj.shape # "sphere" /\ obj.body.upY < TILT_THRESHOLD)
    THEN FallenEntity(obj)
    ELSE <<obj, << >> >>

\* ... the drop test made non-strict
DetectFallAtThreshold(obj) ==
    IF ~obj.isFallen
       /\ (obj.body.position.y <= (obj.initialY - DROP_THRESHOLD)
           \/ (obj.shape # "sphere" /\ obj.body.upY < TILT_THRESHOLD))
    THEN FallenEntity(obj)
    ELSE <<obj, << >> >>

\* ... the tilt test applied to spheres too
DetectFallTiltAll(obj) ==
    IF ~obj.isFallen
       /\ (obj.body.position.y < (obj.initialY - DROP_THRESHOLD)
           \/ obj.body.upY < TILT_THRESHOLD)
    THEN FallenEntity(obj)
    ELSE <<obj, << >> >>

\* Fall detection for one structure entity: <<entity, onBlockFallen calls>>
DetectFall(obj) ==
    IF ~obj.isFallen
    THEN LET currentCenterY          == obj.body.position.y
             hasDroppedSignificantly == currentCenterY < (obj.initialY - DROP_THRESHOLD)
             isSignificantlyTilted   == obj.body.upY < TILT_THRESHOLD
             isSphere                == obj.shape = "sphere"
         IN  IF hasDroppedSignificantly \/ (~isSphere /\ isSignificantlyTilted)
             THEN <<[obj EXCEPT !.isFallen = TRUE], << <<obj.id, obj.isKing>> >> >>
             ELSE <<obj, << >> >>
    ELSE <<obj, << >> >>

RECURSIVE FallEvents(_, _)
FallEvents(objs, i) ==
    IF i > Len(objs) THEN << >>
    ELSE DetectFall(objs[i])[2] \o FallEvents(objs, i + 1)

\* physicsObjectsRef.current.forEach of animate
FallDetection(st) ==
    [st EXCEPT !.objs   = [i \in DOMAIN @ |-> DetectFall(@[i])[1]],
               !.events = FallEvents(st.objs, 1)]

RECURSIVE SpawnSubmunitions(_, _, _, _)
SpawnSubmunitions(proj, i, spreadDir, currentTime) ==
    IF i >= SUBMUNITION_COUNT THEN << >>
    ELSE <<NewSubmunition(proj, i, spreadDir, currentTime)>>
         \o SpawnSubmunitions(proj, i + 1, spreadDir, currentTime)

\* A variant of the transition in which a splitting cluster does not set hasSplit
TransitionProjectileNoFlag(st, i, spreadDir) ==
    LET proj == st.projs[i]
        n    == ParentOf(proj.id)
    IN  IF proj.projectileType = "EXPLOSIVE" /\ ~proj.hasSplit
        THEN IF Expired(proj, st.time) \/ proj.body.sleepState = "SLEEPING"
             THEN [HandleExplosion(st, proj.body.position,
                                   EXPLOSION_RADIUS, EXPLOSION_STRENGTH)
                      EXCEPT !.projs[i].hasSplit = TRUE,
                             !.explosionLog[n] = Append(@, "sweep")]
             ELSE st
        ELSE IF proj.projectileType = "CLUSTER" /\ ~proj.hasSplit /\ Expired(proj, st.time)
        THEN LET subs == SpawnSubmunitions(proj, 0, spreadDir, st.time)
             IN  [st EXCEPT !.newSubmunitions = @ \o subs,
                            !.spawnCount[n] = @ + Len(subs)]
        ELSE st

\* A variant of the transition in which a splitting cluster pushes its
\* submunitions onto the active list itself, so that the running loop visits them
TransitionProjectilePushingNow(st, i, spreadDir) ==
    LET proj == st.projs[i]
        n    == ParentOf(proj.id)
    IN  IF proj.projectileType = "EXPLOSIVE" /\ ~proj.hasSplit
        THEN IF Expired(proj, st.time) \/ proj.body.sleepState = "SLEEPING"
             THEN [HandleExplosion(st, proj.body.position,
                                   EXPLOSION_RADIUS, EXPLOSION_STRENGTH)
                      EXCEPT !.projs[i].hasSplit = TRUE,
                             !.explosionLog[n] = Append(@, "sweep")]
             ELSE st
        ELSE IF proj.projectileType = "CLUSTER" /\ ~proj.hasSplit /\ Expired(proj, st.time)
        THEN LET subs == SpawnSubmunitions(proj, 0, spreadDir, st.time)
             IN  [st EXCEPT !.projs = [@ EXCEPT ![i].hasSplit = TRUE] \o subs,
                            !.spawnCount[n] = @ + Len(subs)]
        ELSE st

\* The transition of projectile i in projectilesRef.current.forEach: the
\* explosive's timeout or sleep, or the cluster's split
TransitionProjectile(st, i, spreadDir) ==
    LET proj    == st.projs[i]
        expired == Expired(proj, st.time)
        n       == ParentOf(proj.id)
    IN  IF proj.projectileType = "EXPLOSIVE" /\ ~proj.hasSplit
        THEN IF expired \/ proj.body.sleepState = "SLEEPING"
             THEN [HandleExplosion(st, proj.body.position,
                                   EXPLOSION_RADIUS, EXPLOSION_STRENGTH)
                      EXCEPT !.projs[i].hasSplit = TRUE,
                             !.explosionLog[n] = Append(@, "sweep")]
             ELSE st
        ELSE IF proj.projectileType = "CLUSTER" /\ ~proj.hasSplit /\ expired
        THEN LET subs == SpawnSubmunitions(proj, 0, spreadDir, st.time)
             IN  [st EXCEPT !.projs[i].hasSplit = TRUE,
                            !.newSubmunitions = @ \o subs,
                            !.spawnCount[n] = @ + Len(subs)]
        ELSE st

\* The removal decision for projectile i, after its transition
MarkForRemoval(st, i) ==
    IF ShouldRemove(st.projs[i], Expired(st.projs[i], st.time))
    THEN [st EXCEPT !.toRemove = @ \cup {i}]
    ELSE st

\* The body of projectilesRef.current.forEach for projectile i
SweepProjectile(st, i, spreadDir) ==
    Strict(LAMBDA s : MarkForRemoval(s, i), TransitionProjectile(st, i, spreadDir))

RECURSIVE ProjectileSweep(_, _, _)
ProjectileSweep(st, i, spreadDir) ==
    IF i > Len(st.projs) THEN st
    ELSE Strict(LAMBDA s : ProjectileSweep(s, i + 1, spreadDir),
                SweepProjectile(st, i, spreadDir))

RECURSIVE KeepIndices(_, _, _)
KeepIndices(s, drop, i) ==
    IF i > Len(s) THEN << >>
    ELSE (IF i \in drop THEN << >> ELSE <<s[i]>>) \o KeepIndices(s, drop, i + 1)

\* cleanUpPhysicsObject for each removed projectile, the filter, and the push
\* of the frame's new submunitions
RemoveAndAppend(st) ==
    [st EXCEPT !.projs = KeepIndices(st.projs, st.toRemove, 1) \o st.newSubmunitions,
               !.removed = KeepIndices(st.projs, (DOMAIN st.projs) \ st.toRemove, 1)]

\* A particle-system loop that disposes of nothing
AdvanceParticlesKeepAll(st) == st

\* The particle-system loop: systems older than the lifespan are disposed of
AdvanceParticles(st) ==
    [st EXCEPT !.systems =
        SelectSeq(@, LAMBDA sys : ~((st.time - sys.creationTime) > EXPLOSION_PARTICLE_LIFESPAN_MS))]

\* The frame from the collide events of world.step to the particle loop
FrameAfterStep(stepped, contactsOf, spreadDir) ==
    Strict(AdvanceParticles,
      Strict(RemoveAndAppend,
        Strict(LAMBDA s : ProjectileSweep(s, 1, spreadDir),
          Strict(FallDetection,
            Strict(LAMBDA s : DispatchCollisions(s, 1, contactsOf), stepped)))))

-----------------------------------------------------------------------------
(* Inputs of the canvas: what the physics engine, the camera and Math.random
   may hand to the code *)

\* Structure bodies after a step, coarse: standing (awake or asleep) or toppled
CoarseBlockOutcomes ==
    { [drop |-> 0, upY |-> 1000, sleepState |-> "AWAKE"],
      [drop |-> 0, upY |-> 1000, sleepState |-> "SLEEPING"],
      [drop |-> 0, upY |-> 0,    sleepState |-> "AWAKE"] }

\* Structure bodies after a step: standing or toppled
SessionBlockOutcomes ==
    { [drop |-> 0, upY |-> 1000, sleepState |-> "AWAKE"],
      [drop |-> 0, upY |-> 0,    sleepState |-> "AWAKE"] }

\* Structure bodies after a step, around the thresholds of fall detection
FineBlockOutcomes ==
    { [drop |-> d, upY |-> u, sleepState |-> "AWAKE"] :
        d \in {0, DROP_THRESHOLD, DROP_THRESHOLD + 1},
        u \in {1000, TILT_THRESHOLD, TILT_THRESHOLD - 1} }

\* Projectile bodies after a step: in flight in front of the golden cube, asleep
\* on the ground within one explosion radius of it, or below the world floor
Flying  == [ position |-> Vec(0, BLOCK_SIZE \div 2, (3 * BLOCK_SIZE) \div 4),
             velocity |-> Vec(0, 0, -20000), sleepState |-> "AWAKE" ]
AtRest  == [ position |-> Vec(0, PROJECTILE_RADIUS, 3120),
             velocity |-> ZeroVec, sleepState |-> "SLEEPING" ]
Escaped == [ position |-> Vec(0, FLOOR_Y - 1, 0),
             velocity |-> Vec(0, -30000, 0), sleepState |-> "AWAKE" ]

ProjectileOutcomes == {Flying, AtRest, Escaped}

\* Collide events of one explosive body: the other body and the impact speed
\* along the contact normal
Contacts ==
    { [kind |-> "block",  idx |-> 1, impact |-> IMPACT_THRESHOLD + 1],
      [kind |-> "block",  idx |-> 1, impact |-> -IMPACT_THRESHOLD],
      [kind |-> "ground", idx |-> 0, impact |-> 5 * IMPACT_THRESHOLD] }

RECURSIVE SeqsUpTo(_, _)
SeqsUpTo(S, n) ==
    IF n = 0 THEN { << >> }
    ELSE LET shorter == SeqsUpTo(S, n - 1)
         IN  shorter \cup { Append(s, c) : s \in shorter, c \in S }

ContactSeqs == SeqsUpTo(Contacts, MaxContacts)

\* Unit directions Math.random may give the spread of a splitting cluster
SpreadDirs == { Vec(1000, 0, 0) }

\* The camera of the first predefined level, looking along -z
CamPos  == Vec(0, 2 * BLOCK_SIZE, 5 * BLOCK_SIZE)
CamDirs == { Vec(0, 0, -1000) }

\* Milliseconds between one animation frame and the next
FrameGaps == {1000}

-----------------------------------------------------------------------------
(* Actions of the canvas *)

\* The last entry of a log, as a log
LastOf(log) == IF log = << >> THEN << >> ELSE << log[Len(log)] >>

\* What one resetLevel call found and left: the projectiles and bursts live
\* before it, the bodies in the world when the rebuild began, and the
\* entities, bodies and meshes afterwards
ResetRecord(liveBefore, atRebuild, objs, reg) ==
    [ liveBefore |-> liveBefore,
      atRebuild  |-> BagCardinality(atRebuild.bodies),
      entities   |-> Len(objs),
      bodies     |-> BagCardinality(reg.bodies),
      meshes     |-> BagCardinality(reg.meshes) ]

EventCount(events, id) == Cardinality({k \in DOMAIN events : events[k][1] = id})

\* animate, dt after the previous callback: the next callback is requested
\* and lastCallTimeRef set; then, with the world and the scene in place,
\* world.step (its outcome chosen by blockOutcomes, projectileOutcomes and
\* contactSeqs) and the whole frame.  performance.now() is explored up to maxTime.
AnimateUntil(dt, maxTime, blockOutcomes, projectileOutcomes, contactSeqs) ==
    LET explosives == {i \in DOMAIN projectiles :
                          projectiles[i].projectileType = "EXPLOSIVE" /\ projectiles[i].listening}
    IN
    /\ frameRafPending
    /\ now + dt <= maxTime
    /\ now' = now + dt
    /\ lastCallTime' = now + dt
    /\ UNCHANGED frameRafPending
    /\ IF ~mounted
       THEN UNCHANGED <<physicsObjects, projectiles, explosionParticleSystems, worldBodies,
                        sceneMeshes, mounted, resetLog, nextProjId, fallenEvents, emitted,
                        explosionLog, spawnCount, blasts, removedParents>>
       ELSE \E bo \in [DOMAIN physicsObjects -> blockOutcomes],
               po \in [DOMAIN projectiles -> projectileOutcomes],
               co \in [explosives -> contactSeqs],
               spreadDir \in SpreadDirs :
             LET stepped ==
                     [ objs            |-> [i \in DOMAIN physicsObjects |-> StepBlock(physicsObjects[i], bo[i])],
                       projs           |-> [i \in DOMAIN projectiles |-> StepProjectile(projectiles[i], po[i])],
                       systems         |-> explosionParticleSystems,
                       blasts          |-> << >>,
                       events          |-> << >>,
                       toRemove        |-> {},
                       removed         |-> << >>,
                       newSubmunitions |-> << >>,
                       explosionLog    |-> explosionLog,
                       spawnCount      |-> spawnCount,
                       time            |-> now + dt ]
                 contactsOf == [i \in DOMAIN projectiles |-> IF i \in explosives THEN co[i] ELSE << >>]
             IN  \E st \in {FrameAfterStep(stepped, contactsOf, spreadDir)} :
                 LET removed == ProjHandles(KeepIndices(projectiles,
                                                        (DOMAIN projectiles) \ st.toRemove, 1))
                     added   == ProjHandles(st.newSubmunitions)
                     reg     == CleanUpEach(AddEach([bodies |-> worldBodies, meshes |-> sceneMeshes],
                                                    added),
                                            removed)
                 IN  /\ physicsObjects' = st.objs
                     /\ projectiles' = st.projs
                     /\ explosionParticleSystems' = st.systems
                     /\ worldBodies' = reg.bodies
                     /\ sceneMeshes' = reg.meshes
                     /\ resetLog' = << >>
                     /\ UNCHANGED mounted
                     /\ fallenEvents' = st.events
                     /\ removedParents' = SelectSeq(st.removed, LAMBDA proj : ~proj.isSubmunition)
                     /\ emitted' = [id \in DOMAIN emitted |-> emitted[id] + EventCount(st.events, id)]
                     /\ explosionLog' = st.explosionLog
                     /\ spawnCount' = st.spawnCount
                     /\ blasts' = st.blasts
                     /\ UNCHANGED nextProjId

\* animate within the time window of the model
Animate(dt, blockOutcomes, projectileOutcomes, contactSeqs) ==
    AnimateUntil(dt, MaxTime, blockOutcomes, projectileOutcomes, contactSeqs)

\* launchProjectile(launchPower, projectileType) with the camera looking
\* along camDir
LaunchProjectileAlong(launchPower, projectileType, camDir) ==
    IF ~mounted THEN UNCHANGED canvasVars
    ELSE
    /\ LET proj == NewProjectile(nextProjId, projectileType, launchPower, CamPos, camDir, now)
           reg  == AddEntity([bodies |-> worldBodies, meshes |-> sceneMeshes],
                             ProjHandle(proj.id))
       IN  /\ projectiles' = Append(projectiles, proj)
           /\ worldBodies' = reg.bodies
           /\ sceneMeshes' = reg.meshes
    /\ nextProjId' = nextProjId + 1
    /\ resetLog' = << >>
    /\ UNCHANGED <<physicsObjects, explosionParticleSystems, mounted, frameRafPending,
                   lastCallTime, now, fallenEvents, emitted, explosionLog, spawnCount, blasts,
                   removedParents>>

\* launchProjectile(launchPower, projectileType)
LaunchProjectile(launchPower, projectileType) ==
    \E camDir \in CamDirs : LaunchProjectileAlong(launchPower, projectileType, camDir)

\* resetLevel(levelConfig): projectiles and particle systems are disposed of,
\* then createStructure disposes of the old entities and builds the new ones
ResetLevel(levelConfig) ==
    IF ~mounted THEN UNCHANGED canvasVars
    ELSE
    LET swept == CleanUpEach([bodies |-> worldBodies, meshes |-> sceneMeshes],
                             ProjHandles(projectiles))
        built == CreateStructureInWorld(physicsObjects, swept, levelConfig)
    IN  /\ projectiles' = << >>
        /\ explosionParticleSystems' = << >>
        /\ physicsObjects' = built.objs
        /\ worldBodies' = built.reg.bodies
        /\ sceneMeshes' = built.reg.meshes
        /\ resetLog' = LastOf(resetLog) \o
                 << ResetRecord(Len(projectiles) + Len(explosionParticleSystems),
                                built.atRebuild, built.objs, built.reg) >>
        /\ fallenEvents' = << >>
        /\ removedParents' = << >>
        /\ emitted' = [id \in DOMAIN emitted |-> 0]
        /\ blasts' = << >>
        /\ lastCallTime' = now
        /\ UNCHANGED <<mounted, frameRafPending, now, nextProjId, explosionLog, spawnCount>>

\* A stop that flips the loop: it starts a loop that is not running
StopChargeToggling(rafPending) == ~rafPending

\* stopCharge: the scheduled chargeUpdateLoop callback, if any, is cancelled
\* and chargeUpdateRafId cleared
StopCharge(rafPending) == FALSE

\* A teardown that leaves the scheduled animate callback in place
CancelFrameNot(rafPending) == rafPending

\* `if (animationFrameIdRef.current) cancelAnimationFrame(...)` of the cleanup
CancelFrame(rafPending) == FALSE

\* The cleanup returned by init: everything is disposed of and worldRef and
\* sceneRef are cleared; the frame loop and the charge loop are cancelled and
\* the window listeners removed
Teardown ==
    /\ mounted
    /\ mounted' = FALSE
    /\ LET reg == CleanUpEach(CleanUpEach([bodies |-> worldBodies, meshes |-> sceneMeshes],
                                          ProjHandles(projectiles)),
                              BlockHandles(physicsObjects))
       IN  /\ worldBodies' = reg.bodies
           /\ sceneMeshes' = reg.meshes
    /\ projectiles' = << >>
    /\ physicsObjects' = << >>
    /\ explosionParticleSystems' = << >>
    /\ resetLog' = << >>
    /\ chargeRafPending' = StopCharge(chargeRafPending)
    /\ frameRafPending' = CancelFrame(frameRafPending)
    /\ upListening' = FALSE
    /\ UNCHANGED <<lastCallTime, now, nextProjId, fallenEvents, emitted, explosionLog, spawnCount, blasts,
                   removedParents,
                   isChargingActive, chargeStartTime, chargeProgress, chargeComplete,
                   gateVars, chargeStarts, chargeCompletes, lastPointerEvent>>

\* The canvas after init(levelConfig): the structure is built, nothing is in flight
CanvasInit(levelConfig) ==
    /\ physicsObjects = CreateStructure(levelConfig)
    /\ projectiles = << >>
    /\ explosionParticleSystems = << >>
    /\ worldBodies = AddEach(EmptyRegistry, BlockHandles(CreateStructure(levelConfig))).bodies
    /\ sceneMeshes = AddEach(EmptyRegistry, BlockHandles(CreateStructure(levelConfig))).meshes
    /\ mounted = TRUE
    /\ resetLog = << >>
    /\ frameRafPending = TRUE
    /\ lastCallTime = 1000
    /\ now = 1000
    /\ nextProjId = 1
    /\ fallenEvents = << >>
    /\ removedParents = << >>
    /\ emitted = [id \in BlockIds |-> 0]
    /\ explosionLog = [n \in 1..MaxLaunches |-> << >>]
    /\ spawnCount = [n \in 1..MaxLaunches |-> 0]
    /\ blasts = << >>

-----------------------------------------------------------------------------
(* Charge/Launch Input Controller *)

\* The sawtooth without the correction at whole multiples of the charge duration
SawtoothPowerPlain(elapsedTime) ==
    (elapsedTime * (PowerUnit \div MAX_CHARGE_DURATION_MS)) % MAX_LAUNCH_POWER

\* displayPower of chargeUpdateLoop and effectiveFinalPower of
\* handlePointerUpGlobal, in units of 1/PowerUnit
SawtoothPower(elapsedTime) ==
    LET rawPower     == elapsedTime * (PowerUnit \div MAX_CHARGE_DURATION_MS)
        displayPower == rawPower % MAX_LAUNCH_POWER
    IN  IF displayPower = 0 /\ rawPower > 0 THEN MAX_LAUNCH_POWER ELSE displayPower

Max(a, b) == IF a >= b THEN a ELSE b

\* The release without the floor
FinalLaunchPowerNoFloor(effectiveFinalPower) == effectiveFinalPower

\* finalLaunchPower of handlePointerUpGlobal
FinalLaunchPower(effectiveFinalPower) == Max(MIN_LAUNCH_POWER, effectiveFinalPower)

\* Milliseconds between one callback of the controller and the next
ChargeGaps == {250, 750, MAX_CHARGE_DURATION_MS}

\* Milliseconds between the press and the release of a charge: a tap may be
\* released within the same millisecond
ReleaseGaps == {0} \cup ChargeGaps

\* Mouse buttons of a pointerdown event: primary and secondary
Buttons == {0, 2}

\* The events handlePointerUpGlobal is registered for
ReleaseEvents == {"pointerup", "pointercancel"}

\* canAttemptCharge and isDelegateModeActive as App renders them:
\* canAttemptCharge is false whenever isDelegateModeActive is true
GateProps ==
    { [canAttemptCharge |-> c, isDelegateModeActive |-> d] :
        c, d \in BOOLEAN } \ { [canAttemptCharge |-> TRUE, isDelegateModeActive |-> TRUE] }

\* The effects that copy the props canAttemptCharge and isDelegateModeActive
\* into their refs after a render
PropsEffect(props) ==
    /\ mounted
    /\ canAttemptChargeRef' = props.canAttemptCharge
    /\ isDelegateModeActiveRef' = props.isDelegateModeActive
    /\ UNCHANGED <<isChargingActive, chargeStartTime, chargeRafPending, upListening,
                   chargeProgress, chargeComplete, isDraggingCameraRef, chargeStarts,
                   chargeCompletes, lastPointerEvent>>
    /\ UNCHANGED canvasVars

\* onControlsStart, and the timeout set by onControlsEnd
ControlsDrag(isDragging) ==
    /\ mounted
    /\ isDraggingCameraRef' = isDragging
    /\ UNCHANGED <<isChargingActive, chargeStartTime, chargeRafPending, upListening,
                   chargeProgress, chargeComplete, canAttemptChargeRef,
                   isDelegateModeActiveRef, chargeStarts, chargeCompletes, lastPointerEvent>>
    /\ UNCHANGED canvasVars

\* A variant of the gate that lets a press through while a charge is active
PressBlockedIgnoringCharge(button, onCanvas) ==
    \/ button # 0
    \/ ~canAttemptChargeRef \/ isDraggingCameraRef \/ isDelegateModeActiveRef
    \/ ~onCanvas

\* A variant of the gate that lets a press through while the camera is dragged
PressBlockedIgnoringDrag(button, onCanvas) ==
    \/ button # 0
    \/ ~canAttemptChargeRef \/ isChargingActive \/ isDelegateModeActiveRef
    \/ ~onCanvas

\* The early returns of handlePointerDown, and the test of the event's target
PressBlocked(button, onCanvas) ==
    \/ button # 0
    \/ ~canAttemptChargeRef \/ isDraggingCameraRef \/ isChargingActive
    \/ isDelegateModeActiveRef
    \/ ~onCanvas

\* handlePointerDown, dt after the previous callback; onCanvas tells whether
\* the event's target is the canvas element or inside the mount element
HandlePointerDown(dt, button, onCanvas) ==
    /\ mounted
    /\ now + dt <= MaxTime
    /\ now' = now + dt
    /\ IF PressBlocked(button, onCanvas)
       THEN /\ lastPointerEvent' = "pointerdown ignored"
            /\ UNCHANGED <<isChargingActive, chargeStartTime, chargeStarts,
                           chargeRafPending, upListening>>
       ELSE /\ isChargingActive' = TRUE
            /\ chargeStartTime' = now'
            /\ chargeStarts' = chargeStarts + 1
            /\ chargeRafPending' = TRUE
            /\ upListening' = TRUE
            /\ lastPointerEvent' = "pointerdown"
    /\ UNCHANGED <<chargeProgress, chargeComplete, gateVars, chargeCompletes>>
    /\ UNCHANGED canvasRest

\* A variant of the poll that stops once the gate is closed
ChargeUpdateLoopGated(dt) ==
    /\ chargeRafPending
    /\ now + dt <= MaxTime
    /\ now' = now + dt
    /\ IF ~isChargingActive \/ ~canAttemptChargeRef \/ isDelegateModeActiveRef
       THEN /\ chargeRafPending' = FALSE
            /\ UNCHANGED chargeProgress
       ELSE LET elapsedTime == now' - chargeStartTime
            IN  /\ chargeProgress' = [start |-> chargeStartTime, at |-> now',
                                      power |-> SawtoothPower(elapsedTime),
                                      canAttempt |-> canAttemptChargeRef]
                /\ chargeRafPending' = TRUE
    /\ UNCHANGED <<isChargingActive, chargeStartTime, upListening, chargeComplete,
                   gateVars, chargeStarts, chargeCompletes, lastPointerEvent>>
    /\ UNCHANGED canvasRest

\* chargeUpdateLoop, dt after the previous callback
ChargeUpdateLoop(dt) ==
    /\ chargeRafPending
    /\ now + dt <= MaxTime
    /\ now' = now + dt
    /\ IF ~isChargingActive
       THEN /\ chargeRafPending' = FALSE
            /\ UNCHANGED chargeProgress
       ELSE LET elapsedTime == now' - chargeStartTime
            IN  /\ chargeProgress' = [start |-> chargeStartTime, at |-> now',
                                      power |-> SawtoothPower(elapsedTime),
                                      canAttempt |-> canAttemptChargeRef]
                /\ chargeRafPending' = TRUE
    /\ UNCHANGED <<isChargingActive, chargeStartTime, upListening, chargeComplete,
                   gateVars, chargeStarts, chargeCompletes, lastPointerEvent>>
    /\ UNCHANGED canvasRest

\* The refs and callbacks handlePointerUpGlobal works on
Controller ==
    [ isChargingActive |-> isChargingActive,
      chargeStartTime  |-> chargeStartTime,
      chargeRafPending |-> chargeRafPending,
      upListening      |-> upListening,
      chargeComplete   |-> chargeComplete,
      chargeCompletes  |-> chargeCompletes ]

\* A variant of the release in which pointercancel drops the charge without
\* reporting it
ReleaseChargeDroppingCancel(ctl, eventType, performanceNow) ==
    IF ~ctl.isChargingActive
    THEN [ctl EXCEPT !.upListening = FALSE]
    ELSE IF eventType = "pointercancel"
    THEN [ctl EXCEPT !.chargeRafPending = StopCharge(ctl.chargeRafPending),
                     !.isChargingActive = FALSE,
                     !.upListening = FALSE]
    ELSE LET elapsedTime         == performanceNow - ctl.chargeStartTime
             effectiveFinalPower == SawtoothPower(elapsedTime)
             finalLaunchPower    == FinalLaunchPower(effectiveFinalPower)
         IN  [ctl EXCEPT !.chargeRafPending = StopCharge(ctl.chargeRafPending),
                         !.chargeComplete = [start |-> ctl.chargeStartTime,
                                             at |-> performanceNow,
                                             effective |-> effectiveFinalPower,
                                             final |-> finalLaunchPower,
                                             canAttempt |-> canAttemptChargeRef],
                         !.chargeCompletes = @ + 1,
                         !.isChargingActive = FALSE,
                         !.upListening = FALSE]

\* The body of handlePointerUpGlobal called with an event of type eventType
\* at time performanceNow: the event is not looked at
ReleaseCharge(ctl, eventType, performanceNow) ==
    IF ~ctl.isChargingActive
    THEN [ctl EXCEPT !.upListening = FALSE]
    ELSE LET elapsedTime         == performanceNow - ctl.chargeStartTime
             effectiveFinalPower == SawtoothPower(elapsedTime)
             finalLaunchPower    == FinalLaunchPower(effectiveFinalPower)
         IN  [ctl EXCEPT !.chargeRafPending = StopCharge(ctl.chargeRafPending),
                         !.chargeComplete = [start |-> ctl.chargeStartTime,
                                             at |-> performanceNow,
                                             effective |-> effectiveFinalPower,
                                             final |-> finalLaunchPower,
                                             canAttempt |-> canAttemptChargeRef],
                         !.chargeCompletes = @ + 1,
                         !.isChargingActive = FALSE,
                         !.upListening = FALSE]

\* handlePointerUpGlobal (pointerup or pointercancel on window), dt after the
\* previous callback
HandlePointerUpGlobal(dt, eventType) ==
    /\ upListening
    /\ now + dt <= MaxTime
    /\ now' = now + dt
    /\ \E ctl \in {ReleaseCharge(Controller, eventType, now + dt)} :
          /\ isChargingActive' = ctl.isChargingActive
          /\ chargeRafPending' = ctl.chargeRafPending
          /\ upListening' = ctl.upListening
          /\ chargeComplete' = ctl.chargeComplete
          /\ chargeCompletes' = ctl.chargeCompletes
    /\ lastPointerEvent' = eventType
    /\ UNCHANGED <<chargeStartTime, chargeProgress, gateVars, chargeStarts>>
    /\ UNCHANGED canvasRest

\* The controller after init: idle, nothing reported yet, the gate as App
\* renders a level that has just been set up
ChargeInit ==
    /\ isChargingActive = FALSE
    /\ chargeStartTime = 0
    /\ chargeRafPending = FALSE
    /\ upListening = FALSE
    /\ chargeProgress = [start |-> 0, at |-> 0, power |-> 0, canAttempt |-> TRUE]
    /\ chargeComplete = [start |-> 0, at |-> 0, effective |-> 0, final |-> 0,
                         canAttempt |-> TRUE]
    /\ canAttemptChargeRef = TRUE
    /\ isDelegateModeActiveRef = FALSE
    /\ isDraggingCameraRef = FALSE
    /\ chargeStarts = 0
    /\ chargeCompletes = 0
    /\ lastPointerEvent = "none"

-----------------------------------------------------------------------------
(* The game session of App: score, ammunition, flags, level index.  The
   gameMessage strings and the charge bar of the UI are left out. *)

\* A custom level whose structure lists the golden block first: a golden cube
\* with a cylinder next to it
LevelKingFirst ==
    << BlockConf("king", 0, BLOCK_SIZE \div 2, 0, "cube", TRUE),
       BlockConf("post", BLOCK_SIZE, BLOCK_SIZE \div 2, 0, "cylinder", FALSE) >>

\* allPlayableLevels, reduced to three small levels: two predefined levels
\* followed by a custom one
PlayableLevels == <<LevelKing, LevelSphereCube, LevelKingFirst>>

\* getDefaultProjectileCounts()
GetDefaultProjectileCounts ==
    [t \in ProjectileType |->
        CASE t = "STANDARD"  -> STANDARD_DEFAULT_COUNT
          [] t = "HEAVY"     -> HEAVY_DEFAULT_COUNT
          [] t = "EXPLOSIVE" -> EXPLOSIVE_DEFAULT_COUNT
          [] t = "CLUSTER"   -> CLUSTER_DEFAULT_COUNT]

\* The initializer of useState<GameState>
InitialGameState ==
    [ score                  |-> 0,
      projectilesLeft        |-> GetDefaultProjectileCounts["STANDARD"],
      projectileCounts       |-> GetDefaultProjectileCounts,
      selectedProjectileType |-> "STANDARD",
      isGameOver             |-> FALSE,
      currentLevelIndex      |-> 0,
      isLevelWon             |-> FALSE ]

\* Object.values(projectileCounts).reduce((sum, count) => sum + count, 0)
TotalProjectilesLeft(counts) ==
    counts["STANDARD"] + counts["HEAVY"] + counts["EXPLOSIVE"] + counts["CLUSTER"]

\* canCurrentlyLaunch of a render
CanCurrentlyLaunch(gs) == gs.projectileCounts[gs.selectedProjectileType] > 0

\* Every queued update has been rendered: the closures and gameStateRef are current
Settled == rendered = [gameState |-> gameState, fallenBlockIds |-> fallenBlockIds]

\* A block-fallen handler that ends the game on every accepted fall
HandleBlockFallenEndsGame(app, seen, blockId, isKing) ==
    IF seen.gameState.isGameOver \/ seen.gameState.isLevelWon \/ blockId \in seen.fallenBlockIds
    THEN app
    ELSE LET prev         == app.gameState
             pointsEarned == IF isKing THEN POINTS_PER_KING ELSE POINTS_PER_BLOCK
         IN  [ gameState |->
                  [prev EXCEPT !.score      = @ + pointsEarned,
                               !.isGameOver = TRUE,
                               !.isLevelWon = IF isKing THEN TRUE ELSE @],
               fallenBlockIds |-> app.fallenBlockIds \cup {blockId} ]

\* handleBlockFallen(blockId, isKing) on the session `app`; `seen` is the render
\* whose gameStateRef and fallenBlockIds the callback reads
HandleBlockFallen(app, seen, blockId, isKing) ==
    IF seen.gameState.isGameOver \/ seen.gameState.isLevelWon \/ blockId \in seen.fallenBlockIds
    THEN app
    ELSE LET prev         == app.gameState
             pointsEarned == IF isKing THEN POINTS_PER_KING ELSE POINTS_PER_BLOCK
             isLastLevel  == prev.currentLevelIndex = Len(PlayableLevels) - 1
         IN  [ gameState |->
                  [prev EXCEPT !.score      = @ + pointsEarned,
                               !.isGameOver = IF isKing /\ isLastLevel THEN TRUE ELSE @,
                               !.isLevelWon = IF isKing THEN TRUE ELSE @],
               fallenBlockIds |-> app.fallenBlockIds \cup {blockId} ]

\* The onBlockFallen calls of one frame, in order, all made under the same render
RECURSIVE DeliverFallen(_, _, _, _)
DeliverFallen(app, seen, events, k) ==
    IF k > Len(events) THEN app
    ELSE DeliverFallen(HandleBlockFallen(app, seen, events[k][1], events[k][2]),
                       seen, events, k + 1)

\* handleLaunchProjectile(launchPower, type)
HandleLaunchProjectile(launchPower, type) ==
    /\ LaunchProjectile(launchPower, type)
    /\ LET newCounts == [gameState.projectileCounts EXCEPT ![type] = Max(0, @ - 1)]
       IN  gameState' = [gameState EXCEPT
                            !.projectileCounts = newCounts,
                            !.projectilesLeft  = newCounts[gameState.selectedProjectileType]]
    /\ UNCHANGED <<fallenBlockIds, rendered>>

\* handleChargeComplete(finalPower), called by the canvas on pointer release
HandleChargeComplete(finalPower, isDelegateModeActive) ==
    IF /\ CanCurrentlyLaunch(rendered.gameState)
       /\ ~rendered.gameState.isGameOver
       /\ ~rendered.gameState.isLevelWon
       /\ ~isDelegateModeActive
    THEN HandleLaunchProjectile(Max(MIN_LAUNCH_POWER, finalPower),
                                rendered.gameState.selectedProjectileType)
    ELSE UNCHANGED <<canvasVars, appVars>>

\* A selection that leaves projectilesLeft as it was
SelectProjectileTypeKeepingLeft(prev, type) ==
    IF prev.projectileCounts[type] > 0 \/ type = prev.selectedProjectileType
    THEN [prev EXCEPT !.selectedProjectileType = type]
    ELSE prev

\* The update handleSelectProjectileType(type) queues, applied to prev
SelectProjectileType(prev, type) ==
    IF prev.projectileCounts[type] > 0 \/ type = prev.selectedProjectileType
    THEN [prev EXCEPT !.selectedProjectileType = type,
                      !.projectilesLeft = prev.projectileCounts[type]]
    ELSE prev

\* handleSelectProjectileType(type)
HandleSelectProjectileType(type) ==
    /\ gameState' = SelectProjectileType(gameState, type)
    /\ UNCHANGED <<fallenBlockIds, rendered, canvasVars>>

\* setupLevel(levelIndex), keeping the score and the ammunition of the old session
SetupLevelKeepingSession(levelIndex) ==
    LET targetIndex == IF levelIndex >= 0 /\ levelIndex < Len(PlayableLevels)
                       THEN levelIndex ELSE 0
    IN  /\ gameState' = [gameState EXCEPT
                            !.isGameOver = FALSE,
                            !.currentLevelIndex = targetIndex,
                            !.isLevelWon = FALSE]
        /\ fallenBlockIds' = {}
        /\ UNCHANGED <<rendered, canvasVars>>

\* setupLevel(levelIndex), always starting the first level
SetupLevelFirst(levelIndex) ==
    LET newProjectileCounts == GetDefaultProjectileCounts
        newSelectedType     == rendered.gameState.selectedProjectileType
    IN  /\ gameState' = [gameState EXCEPT
                            !.score = 0,
                            !.projectilesLeft = newProjectileCounts[newSelectedType],
                            !.projectileCounts = newProjectileCounts,
                            !.selectedProjectileType = newSelectedType,
                            !.isGameOver = FALSE,
                            !.currentLevelIndex = 0,
                            !.isLevelWon = FALSE]
        /\ fallenBlockIds' = {}
        /\ UNCHANGED <<rendered, canvasVars>>

\* setupLevel(levelIndex) with a non-empty level list
SetupLevel(levelIndex) ==
    LET targetIndex == IF levelIndex >= 0 /\ levelIndex < Len(PlayableLevels)
                       THEN levelIndex ELSE 0
        newProjectileCounts == GetDefaultProjectileCounts
        newSelectedType     == rendered.gameState.selectedProjectileType
    IN  /\ gameState' = [gameState EXCEPT
                            !.score = 0,
                            !.projectilesLeft = newProjectileCounts[newSelectedType],
                            !.projectileCounts = newProjectileCounts,
                            !.selectedProjectileType = newSelectedType,
                            !.isGameOver = FALSE,
                            !.currentLevelIndex = targetIndex,
                            !.isLevelWon = FALSE]
        /\ fallenBlockIds' = {}
        /\ UNCHANGED <<rendered, canvasVars>>

\* handleResetGame
HandleResetGame == SetupLevel(0)

\* handleNextLevel
HandleNextLevel ==
    IF rendered.gameState.currentLevelIndex < Len(PlayableLevels) - 1
    THEN SetupLevel(rendered.gameState.currentLevelIndex + 1)
    ELSE UNCHANGED <<canvasVars, appVars>>

\* The timeout of the auto-advance effect fires
NextLevelTimer ==
    /\ rendered.gameState.isLevelWon
    /\ ~rendered.gameState.isGameOver
    /\ rendered.gameState.currentLevelIndex < Len(PlayableLevels) - 1
    /\ HandleNextLevel

\* A GameCanvas with a new key replaces the old one: the cleanup of the old
\* instance, then init(levelConfig) of the new one with fresh refs
Mount(levelConfig) ==
    /\ physicsObjects' = CreateStructure(levelConfig)
    /\ projectiles' = << >>
    /\ explosionParticleSystems' = << >>
    /\ worldBodies' = AddEach(EmptyRegistry, BlockHandles(CreateStructure(levelConfig))).bodies
    /\ sceneMeshes' = AddEach(EmptyRegistry, BlockHandles(CreateStructure(levelConfig))).meshes
    /\ mounted' = TRUE
    /\ resetLog' = << >>
    /\ frameRafPending' = TRUE
    /\ lastCallTime' = now
    /\ fallenEvents' = << >>
    /\ removedParents' = << >>
    /\ emitted' = [id \in DOMAIN emitted |-> 0]
    /\ blasts' = << >>
    /\ isChargingActive' = FALSE
    /\ chargeStartTime' = 0
    /\ chargeRafPending' = FALSE
    /\ upListening' = FALSE
    /\ isDraggingCameraRef' = FALSE
    /\ UNCHANGED <<now, nextProjId, explosionLog, spawnCount, chargeProgress, chargeComplete,
                   canAttemptChargeRef, isDelegateModeActiveRef, chargeStarts,
                   chargeCompletes, lastPointerEvent>>

\* The types performDelegateAction can pick: those with ammunition left in
\* gameStateRef.current
AvailableProjectileTypes(gs) == {t \in ProjectileType : gs.projectileCounts[t] > 0}

\* The condition under which the auto-play effect starts the firing interval
DelegateEnabled(d, gs) == d.active /\ ~gs.isGameOver /\ ~gs.isLevelWon /\ ~d.overlay

\* performDelegateAction() on the session ses = [gameState, delegate], with gs
\* the value of gameStateRef.current and selectedType the type Math.random
\* picks: without ammunition auto-play is switched off (and its effect clears
\* the interval); otherwise the type is selected and the launch is scheduled
\* 300 ms ahead.  The launch power, random in [0.7, 1.0], is not kept.
PerformDelegateAction(ses, gs, selectedType) ==
    IF AvailableProjectileTypes(gs) = {}
    THEN [ses EXCEPT !.delegate.active = FALSE, !.delegate.interval = FALSE]
    ELSE [ses EXCEPT !.gameState = SelectProjectileType(@, selectedType),
                     !.delegate.timeouts = Append(@, selectedType)]

\* The types Math.random can pick in performDelegateAction (any one type
\* when none is available: the pick is not made)
DelegatePicks(gs) ==
    IF AvailableProjectileTypes(gs) = {} THEN {"STANDARD"} ELSE AvailableProjectileTypes(gs)

\* The picks of an effect run: none is made unless performDelegateAction runs
EffectPicks(d, gs) == IF DelegateEnabled(d, gs) THEN DelegatePicks(gs) ELSE {"STANDARD"}

\* A launch timeout that fires whatever has happened since the aim
DelegateLaunchAlways(d, gs) == TRUE

\* The re-check of the 300 ms timeout, on the refs
DelegateLaunchAllowed(d, gs) == d.active /\ ~gs.isGameOver /\ ~gs.isLevelWon

\* An auto-play effect that leaves the firing interval running when its
\* condition no longer holds
DelegateEffectKeepingInterval(ses, gs, selectedType) ==
    IF DelegateEnabled(ses.delegate, gs)
    THEN PerformDelegateAction([ses EXCEPT !.delegate.interval = TRUE], gs, selectedType)
    ELSE ses

\* The auto-play effect, run because one of its dependencies changed: the old
\* interval is cleared; when auto-play is on in a level that is neither won nor
\* over and neither editor nor library is open, performDelegateAction runs at
\* once and the 2500 ms interval is set
DelegateEffect(ses, gs, selectedType) ==
    IF DelegateEnabled(ses.delegate, gs)
    THEN PerformDelegateAction([ses EXCEPT !.delegate.interval = TRUE], gs, selectedType)
    ELSE [ses EXCEPT !.delegate.interval = FALSE]

\* React renders the queued updates and runs the effects: gameStateRef and the
\* closures become current, the canvas is replaced when its key changed, the
\* out-of-ammo effect queues game over, and the auto-play effect runs when the
\* game-over or level-won flag of the render differs from the previous one
Commit ==
    /\ ~Settled
    /\ rendered' = [gameState |-> gameState, fallenBlockIds |-> fallenBlockIds]
    /\ LET afterAmmo ==
               IF /\ TotalProjectilesLeft(gameState.projectileCounts) = 0
                  /\ ~gameState.isLevelWon
                  /\ ~gameState.isGameOver
               THEN [gameState EXCEPT !.isGameOver = TRUE]
               ELSE gameState
           flagsChanged ==
               \/ gameState.isGameOver # rendered.gameState.isGameOver
               \/ gameState.isLevelWon # rendered.gameState.isLevelWon
       IN  IF flagsChanged
           THEN \E selectedType \in EffectPicks(delegate, gameState) :
                   LET ses == DelegateEffect([gameState |-> afterAmmo, delegate |-> delegate],
                                             gameState, selectedType)
                   IN  gameState' = ses.gameState /\ delegate' = ses.delegate
           ELSE gameState' = afterAmmo /\ UNCHANGED delegate
    /\ IF gameState.currentLevelIndex # rendered.gameState.currentLevelIndex
       THEN Mount(PlayableLevels[gameState.currentLevelIndex + 1])
       ELSE UNCHANGED <<canvasVars, chargeVars>>
    /\ UNCHANGED <<fallenBlockIds, customLevels>>

\* animate with the session behind onBlockFallen
AnimateWithSession(dt, blockOutcomes, projectileOutcomes, contactSeqs) ==
    /\ Animate(dt, blockOutcomes, projectileOutcomes, contactSeqs)
    /\ LET app == DeliverFallen([gameState |-> gameState, fallenBlockIds |-> fallenBlockIds],
                                rendered, fallenEvents', 1)
       IN  /\ gameState' = app.gameState
           /\ fallenBlockIds' = app.fallenBlockIds
    /\ UNCHANGED rendered

\* The session after the first render and its effects
AppInit ==
    /\ gameState = InitialGameState
    /\ fallenBlockIds = {}
    /\ rendered = [gameState |-> InitialGameState, fallenBlockIds |-> {}]
    /\ customLevels = << >>
    /\ delegate = [active |-> FALSE, overlay |-> FALSE, interval |-> FALSE, timeouts |-> << >>]

vars == <<canvasVars, chargeVars, appVars>>

-----------------------------------------------------------------------------
(* The projectile life cycle: standard, heavy and explosive projectiles
   against the one-block level *)

Init == CanvasInit(LevelKing) /\ ChargeInit /\ AppInit

\* The canvas on its own: no session behind the callbacks, no pointer input
Idle == UNCHANGED <<chargeVars, appVars>>

AnimateFrame ==
    /\ \E dt \in FrameGaps : Animate(dt, CoarseBlockOutcomes, ProjectileOutcomes, ContactSeqs)
    /\ Idle
Launch == nextProjId <= MaxLaunches /\ Idle /\ \E type \in {"STANDARD", "HEAVY", "EXPLOSIVE"} :
              LaunchProjectile(MAX_LAUNCH_POWER, type)
Reset == ResetLevel(LevelKing) /\ Idle
Unmount == Teardown /\ UNCHANGED appVars

Next == AnimateFrame \/ Launch \/ Reset \/ Unmount

Spec == Init /\ [][Next]_vars

\* The projectiles that were active during the latest frame and still are
\* (a projectile launched or spawned since carries the frame's own time stamp)
InFlightBefore(proj) == proj.creationTime < now
ActiveExplosive(proj) == proj.projectileType = "EXPLOSIVE" /\ ~proj.isSubmunition

\* C4: handleExplosion has been invoked at most once for every launched
\* explosive; an explosive still in the active set has not exploded, its flag
\* is clear, and the latest frame found it neither expired nor asleep; an
\* explosive that has exploded has left the active set for good.
C4_ExplodesAtMostOnce ==
    /\ \A n \in DOMAIN explosionLog : Len(explosionLog[n]) <= 1
    /\ \A i \in DOMAIN projectiles :
          ActiveExplosive(projectiles[i]) =>
              /\ explosionLog[ParentOf(projectiles[i].id)] = << >>
              /\ ~projectiles[i].hasSplit
              /\ ~Expired(projectiles[i], now)
              /\ projectiles[i].body.sleepState # "SLEEPING"

\* Two explosives were launched; one exploded once on a collision, the other
\* once in the sweep (timeout or sleep).
C4_Witness ==
    /\ nextProjId > MaxLaunches
    /\ \E n, k \in DOMAIN explosionLog :
          explosionLog[n] = <<"collide">> /\ explosionLog[k] = <<"sweep">>

\* C15: the stages of a frame run in the order physics step, visual sync and
\* fall detection, projectile transitions with their explosions, particle
\* advance; every explosion (its impulses included) is applied by the
\* projectile loop, after the step and fall detection of its frame, and never
\* by a callback running inside world.step.  An entry "collide" of
\* explosionLog is a handleExplosion call made by a collide listener during
\* world.step, an entry "sweep" one made by the projectile loop.
C15_EffectsAfterFallDetection ==
    \A n \in DOMAIN explosionLog :
        \A k \in DOMAIN explosionLog[n] : explosionLog[n][k] = "sweep"

PlainProjectile(proj) ==
    proj.projectileType \in {"STANDARD", "HEAVY"} /\ ~proj.isSubmunition

\* C5: after every frame no standard or heavy projectile that is resting
\* (asleep with near-zero velocity) or below y = -10 is left in the active
\* set, in the physics world or in the scene.
C5_RestingPlainRemoved ==
    \A i \in DOMAIN projectiles :
        (PlainProjectile(projectiles[i])
            /\ (Resting(projectiles[i].body) \/ projectiles[i].body.position.y < FLOOR_Y))
        => FALSE

\* What does hold for the plain projectiles: one below y = -10 is removed by
\* the frame, with its body and mesh; a resting one is kept.
C5_EscapedPlainRemoved ==
    /\ \A i \in DOMAIN projectiles :
          PlainProjectile(projectiles[i]) => ~(projectiles[i].body.position.y < FLOOR_Y)
    /\ worldBodies = AddEach(EmptyRegistry,
                             BlockHandles(physicsObjects) \o ProjHandles(projectiles)).bodies
    /\ sceneMeshes = worldBodies

WithinRadius(body, blast) == Length(Vsub(body.position, blast.position)) < blast.radius
PushedBy(body, blast) ==
    \E j \in DOMAIN body.impulses :
        body.impulses[j].dir.v = Vsub(body.position, blast.position)

\* C7 as stated: every body within the radius of an explosion of the latest
\* frame, structure block or projectile active during that frame, has
\* received the explosion's impulse and is awake.
C7_EveryBodyInRadiusPushed ==
    \A k \in DOMAIN blasts :
        /\ \A i \in DOMAIN physicsObjects :
              WithinRadius(physicsObjects[i].body, blasts[k]) =>
                  /\ PushedBy(physicsObjects[i].body, blasts[k])
                  /\ physicsObjects[i].body.sleepState = "AWAKE"
        /\ \A i \in DOMAIN projectiles :
              (InFlightBefore(projectiles[i]) /\ WithinRadius(projectiles[i].body, blasts[k])) =>
                  /\ PushedBy(projectiles[i].body, blasts[k])
                  /\ projectiles[i].body.sleepState = "AWAKE"

\* C7, amended: every structure block within the radius of an explosion of
\* the latest frame has received one impulse per such explosion, directed away
\* from its centre, and is awake; a block outside the radius has received none
\* from it; no projectile has received an impulse.
C7_BlocksInRadiusPushed ==
    /\ \A i \in DOMAIN physicsObjects :
          LET body == physicsObjects[i].body
              near == {k \in DOMAIN blasts : WithinRadius(body, blasts[k])}
          IN  /\ Len(body.impulses) = Cardinality(near)
              /\ \A k \in near : PushedBy(body, blasts[k])
              /\ near # {} => body.sleepState = "AWAKE"
              /\ \A j \in DOMAIN body.impulses :
                    /\ body.impulses[j].dir.v # ZeroVec
                    /\ body.impulses[j].mag.num > 0
    /\ \A i \in DOMAIN projectiles : projectiles[i].body.impulses = << >>

\* An explosion of the latest frame has pushed the golden cube while another
\* projectile, asleep within the radius, received nothing; and another
\* explosion of the same run was out of the cube's reach.
C7_Witness ==
    /\ \E k \in DOMAIN blasts :
          /\ \E i \in DOMAIN physicsObjects :
                WithinRadius(physicsObjects[i].body, blasts[k])
                /\ PushedBy(physicsObjects[i].body, blasts[k])
          /\ \E i \in DOMAIN projectiles :
                /\ InFlightBefore(projectiles[i])
                /\ WithinRadius(projectiles[i].body, blasts[k])
                /\ projectiles[i].body.sleepState = "SLEEPING"
                /\ projectiles[i].body.impulses = << >>

-----------------------------------------------------------------------------
(* The cluster life cycle: one cluster projectile against the one-block level *)

ClusterFrame ==
    /\ \E dt \in FrameGaps : Animate(dt, CoarseBlockOutcomes, ProjectileOutcomes, ContactSeqs)
    /\ Idle
ClusterLaunch ==
    /\ nextProjId <= MaxClusterLaunches
    /\ LaunchProjectile(MAX_LAUNCH_POWER, "CLUSTER")
    /\ Idle

NextCluster == ClusterFrame \/ ClusterLaunch \/ Reset

SpecCluster == Init /\ [][NextCluster]_vars

ClusterParent(proj, n) == proj.projectileType = "CLUSTER" /\ proj.id = <<n>>
SubmunitionOf(proj, n) == proj.isSubmunition /\ ParentOf(proj.id) = n
SubmunitionsOf(projs, n) == {i \in DOMAIN projs : SubmunitionOf(projs[i], n)}

\* After every frame: a launched cluster has spawned either nothing or
\* SUBMUNITION_COUNT submunitions; one still in the active set has spawned
\* nothing, has its flag clear and had not outlived its split delay at the
\* latest frame.
C3_State ==
    \A n \in DOMAIN spawnCount :
        /\ spawnCount[n] \in {0, SUBMUNITION_COUNT}
        /\ Cardinality(SubmunitionsOf(projectiles, n)) <= spawnCount[n]
        /\ \A i \in DOMAIN projectiles :
              ClusterParent(projectiles[i], n) =>
                  /\ spawnCount[n] = 0
                  /\ ~projectiles[i].hasSplit
                  /\ ~Expired(projectiles[i], now)

\* A step that spawns from cluster n is a frame at which the cluster, active
\* until then, has outlived its split delay; the frame appends exactly
\* SUBMUNITION_COUNT submunitions of n, stamped with the frame's time, and
\* removes n itself from the active set, the world and the scene.
C3_Step ==
    \A n \in DOMAIN spawnCount :
        spawnCount'[n] # spawnCount[n] =>
            /\ spawnCount[n] = 0 /\ spawnCount'[n] = SUBMUNITION_COUNT
            /\ \E i \in DOMAIN projectiles :
                  ClusterParent(projectiles[i], n) /\ Expired(projectiles[i], now')
            /\ \A i \in DOMAIN projectiles' : ~ClusterParent(projectiles'[i], n)
            /\ ~BagIn(ProjHandle(<<n>>), worldBodies') /\ ~BagIn(ProjHandle(<<n>>), sceneMeshes')
            /\ Cardinality(SubmunitionsOf(projectiles', n)) = SUBMUNITION_COUNT
            /\ \A i \in SubmunitionsOf(projectiles', n) : projectiles'[i].creationTime = now'

\* C3: a cluster projectile active at the first frame after its split delay
\* has elapsed spawns exactly SUBMUNITION_COUNT submunitions in that frame and
\* is removed by that frame's sweep; no other frame spawns from it.
C3_SplitsExactlyOnce == []C3_State /\ [][C3_Step]_vars

\* A cluster has split, and a later frame has gone by with some of its
\* submunitions still active.
C3_Witness ==
    \E n \in DOMAIN spawnCount :
        /\ spawnCount[n] = SUBMUNITION_COUNT
        /\ \E i \in SubmunitionsOf(projectiles, n) : projectiles[i].creationTime < now

\* Submunition k of cluster n is at index i of the list projs
SubmunitionAt(projs, i, n, k) == projs[i].isSubmunition /\ projs[i].id = <<n, k>>

\* C16: the submunitions created by a split in a frame join the active set
\* only after that frame's removal sweep and filtering: at the end of the
\* frame each of them is in the active set exactly once, behind every
\* projectile that was there before the frame and survived the sweep, and
\* with its body in the world and its mesh in the scene, whether or not it
\* meets a removal condition of that frame.
C16_SubmunitionsJoinAfterSweep ==
    [][ \A n \in DOMAIN spawnCount :
          spawnCount'[n] # spawnCount[n] =>
              \A k \in 0..(SUBMUNITION_COUNT - 1) :
                  /\ Cardinality({i \in DOMAIN projectiles' :
                                     SubmunitionAt(projectiles', i, n, k)}) = 1
                  /\ \A i \in DOMAIN projectiles' :
                        SubmunitionAt(projectiles', i, n, k) =>
                            /\ projectiles'[i].creationTime = now'
                            /\ projectiles'[i].body.sleepState = "AWAKE"
                            /\ \A j \in DOMAIN projectiles' :
                                  projectiles'[j].creationTime < now' => j < i
                  /\ CopiesIn(ProjHandle(<<n, k>>), worldBodies') = 1
                  /\ CopiesIn(ProjHandle(<<n, k>>), sceneMeshes') = 1 ]_vars

\* The latest frame has split a cluster below the world floor: its
\* submunitions, created there, meet the removal condition of that frame and
\* are in the active set.
C16_Witness ==
    \E i \in DOMAIN projectiles :
        /\ projectiles[i].isSubmunition
        /\ projectiles[i].creationTime = now
        /\ ShouldRemove(projectiles[i], Expired(projectiles[i], now))

-----------------------------------------------------------------------------
(* The explosion impulse: handleExplosion called with centres at chosen
   distances from the golden cube, and with several radii and strengths *)

\* Distances from the block's centre at which Length is exact: on an axis,
\* and along a 3-4-5 diagonal
BlastOffsets ==
    { Vec(0, 0, d) : d \in {0, 500, 1000, EXPLOSION_RADIUS \div 2, EXPLOSION_RADIUS - 1,
                            EXPLOSION_RADIUS, EXPLOSION_RADIUS + 1} }
        \cup { Vec(0, 1200, 1600) }
BlastRadii == {EXPLOSION_RADIUS, BLOCK_SIZE}
BlastStrengths == {EXPLOSION_STRENGTH, 1000}

\* handleExplosion(position, explosionRadius, explosionStrength)
Explode(position, explosionRadius, explosionStrength) ==
    /\ Len(blasts) < MaxBlasts
    /\ LET st == HandleExplosion([ objs    |-> physicsObjects,
                                   systems |-> explosionParticleSystems,
                                   blasts  |-> blasts,
                                   time    |-> now ],
                                 position, explosionRadius, explosionStrength)
       IN  /\ physicsObjects' = st.objs
           /\ explosionParticleSystems' = st.systems
           /\ blasts' = st.blasts
    /\ UNCHANGED <<projectiles, worldBodies, sceneMeshes, mounted, resetLog, frameRafPending,
                   lastCallTime, now, nextProjId,
                   fallenEvents, emitted, explosionLog, spawnCount, removedParents>>

Blast ==
    /\ \E offset \in BlastOffsets, radius \in BlastRadii, strength \in BlastStrengths :
          Explode(Vadd(physicsObjects[1].body.position, offset), radius, strength)
    /\ Idle

NextBlast == Blast

SpecBlast == Init /\ [][NextBlast]_vars

Distance(body, blast) == Length(Vsub(body.position, blast.position))
InRange(body, bs) == SelectSeq(bs, LAMBDA b : Distance(body, b) < b.radius)

\* strength * (1 - d / radius)
FalloffMagnitude(d, radius, strength) == Frac(strength * (radius - d), radius)

\* C6 as stated: the impulses a block has received are, in order, those of
\* the explosions whose centre is at a distance d < radius from it, each of
\* magnitude strength * (1 - d / radius): strength at d = 0, half of it at
\* d = radius / 2; an explosion at d >= radius has given it none.
C6_ImpulseFalloff ==
    \A i \in DOMAIN physicsObjects :
        LET body == physicsObjects[i].body
            near == InRange(body, blasts)
        IN  /\ Len(body.impulses) = Len(near)
            /\ \A j \in DOMAIN near :
                  FracEq(ImpulseNorm(body.impulses[j]),
                         FalloffMagnitude(Distance(body, near[j]), near[j].radius, near[j].strength))

\* What does hold: the formula for 0 < d < radius, and no impulse for
\* d >= radius; at d = 0 the impulse applied is the zero vector.
C6_FalloffAwayFromCentre ==
    \A i \in DOMAIN physicsObjects :
        LET body == physicsObjects[i].body
            near == InRange(body, blasts)
        IN  /\ Len(body.impulses) = Len(near)
            /\ \A j \in DOMAIN near :
                  IF Distance(body, near[j]) = 0
                  THEN FracIsZero(ImpulseNorm(body.impulses[j]))
                  ELSE FracEq(ImpulseNorm(body.impulses[j]),
                              FalloffMagnitude(Distance(body, near[j]), near[j].radius, near[j].strength))

-----------------------------------------------------------------------------
(* Fall detection: a sphere under the golden cube, with bodies stepped to
   poses around the drop and tilt thresholds *)

InitFall == CanvasInit(LevelSphereCube) /\ ChargeInit /\ AppInit

FallFrame ==
    /\ \E dt \in FrameGaps : Animate(dt, FineBlockOutcomes, ProjectileOutcomes, ContactSeqs)
    /\ Idle
FallReset == ResetLevel(LevelSphereCube) /\ Idle

NextFall == FallFrame \/ FallReset

SpecFall == InitFall /\ [][NextFall]_vars

\* The centre is strictly more than 0.375 * BLOCK_SIZE below its initial height
DroppedBeyondThreshold(obj) ==
    1000 * (obj.initialY - obj.body.position.y) > 375 * BLOCK_SIZE
DroppedExactlyThreshold(obj) ==
    1000 * (obj.initialY - obj.body.position.y) = 375 * BLOCK_SIZE
Upright(obj) == obj.body.upY >= TILT_THRESHOLD
ReportedNow(obj) == EventCount(fallenEvents, obj.id) > 0

\* C1: since the structure was loaded, onBlockFallen has been called exactly
\* once for each block whose fallen flag is set and never for the others, so
\* no block id is reported twice and a reported block keeps its flag.
C1_FallenReportedOnce ==
    \A i \in DOMAIN physicsObjects :
        emitted[physicsObjects[i].id] = IF physicsObjects[i].isFallen THEN 1 ELSE 0

\* A block reported by an earlier frame has gone through a later frame while
\* still below the drop threshold.
C1_Witness ==
    \E i \in DOMAIN physicsObjects :
        /\ physicsObjects[i].isFallen
        /\ ~ReportedNow(physicsObjects[i])
        /\ DroppedBeyondThreshold(physicsObjects[i])

C8_Step(before, after) ==
    (~before.isFallen /\ Upright(after)) =>
        (after.isFallen <=> DroppedBeyondThreshold(after))

\* C8: a block that is not yet fallen and is upright after the step is marked
\* fallen by the frame exactly when its centre is strictly more than
\* 0.375 * BLOCK_SIZE below its initial centre.
C8_DropThresholdStrict ==
    [][\A i \in DOMAIN physicsObjects :
          C8_Step(physicsObjects[i], physicsObjects'[i])]_vars

\* In one frame an upright block exactly at the threshold stays unfallen and
\* an upright block one thousandth lower is reported.
C8_Witness ==
    \E i, j \in DOMAIN physicsObjects :
        /\ Upright(physicsObjects[i]) /\ DroppedExactlyThreshold(physicsObjects[i])
        /\ ~physicsObjects[i].isFallen
        /\ Upright(physicsObjects[j]) /\ DroppedBeyondThreshold(physicsObjects[j])
        /\ physicsObjects[j].isFallen /\ ReportedNow(physicsObjects[j])

C9_Step(before, after) ==
    (~before.isFallen /\ ~Upright(after)) =>
        IF DroppedBeyondThreshold(after)
        THEN after.isFallen
        ELSE (after.isFallen <=> after.shape # "sphere")

\* C9: of the blocks not yet fallen whose up axis has y below 0.5 after the
\* step, one that has not dropped beyond the threshold is marked fallen by the
\* frame exactly when it is not a sphere, and one that has dropped beyond the
\* threshold is marked fallen whatever its shape.
C9_TiltExemptsSpheres ==
    [][\A i \in DOMAIN physicsObjects :
          C9_Step(physicsObjects[i], physicsObjects'[i])]_vars

\* In one frame the tilted sphere stays unfallen and the equally tilted cube
\* is reported, neither having dropped beyond the threshold.
C9_Witness ==
    \E i, j \in DOMAIN physicsObjects :
        /\ physicsObjects[i].shape = "sphere" /\ ~Upright(physicsObjects[i])
        /\ ~DroppedBeyondThreshold(physicsObjects[i]) /\ ~physicsObjects[i].isFallen
        /\ physicsObjects[j].shape = "cube" /\ ~Upright(physicsObjects[j])
        /\ ~DroppedBeyondThreshold(physicsObjects[j])
        /\ physicsObjects[j].isFallen /\ ReportedNow(physicsObjects[j])

-----------------------------------------------------------------------------
(* The charge controller: pointer input on a canvas whose frame loop is left
   aside, the callbacks recorded instead of handed to the session *)

PointerDown ==
    /\ \E dt \in ChargeGaps, button \in Buttons, onCanvas \in BOOLEAN :
          HandlePointerDown(dt, button, onCanvas)
    /\ UNCHANGED appVars
ChargeTick == (\E dt \in ChargeGaps : ChargeUpdateLoop(dt)) /\ UNCHANGED appVars
PointerUp ==
    /\ \E dt \in ReleaseGaps, eventType \in ReleaseEvents : HandlePointerUpGlobal(dt, eventType)
    /\ UNCHANGED appVars

NextCharge == PointerDown \/ ChargeTick \/ PointerUp

SpecCharge == Init /\ [][NextCharge]_vars

\* (t / 1500) mod 1.0 with 1.0 in place of a remainder of 0, in units of 1/PowerUnit
SawtoothOf(t) ==
    IF t % MAX_CHARGE_DURATION_MS = 0
    THEN PowerUnit
    ELSE ((t % MAX_CHARGE_DURATION_MS) * PowerUnit) \div MAX_CHARGE_DURATION_MS

ProgressHold == chargeProgress.at - chargeProgress.start
CompleteHold == chargeComplete.at - chargeComplete.start

\* C10: for every hold time t > 0 ms the reported progress and the final power
\* before the floor equal (t / 1500) mod 1.0, with 1.0 where the remainder is 0;
\* so 750 ms gives 0.5, 1500 ms gives 1.0 and 2250 ms gives 0.5.
C10_PowerSawtooth ==
    /\ ProgressHold > 0 =>
          /\ chargeProgress.power = SawtoothOf(ProgressHold)
          /\ ProgressHold = 750  => 2 * chargeProgress.power = PowerUnit
          /\ ProgressHold = 1500 => chargeProgress.power = PowerUnit
          /\ ProgressHold = 2250 => 2 * chargeProgress.power = PowerUnit
    /\ CompleteHold > 0 =>
          /\ chargeComplete.effective = SawtoothOf(CompleteHold)
          /\ CompleteHold = 750  => 2 * chargeComplete.effective = PowerUnit
          /\ CompleteHold = 1500 => chargeComplete.effective = PowerUnit
          /\ CompleteHold = 2250 => 2 * chargeComplete.effective = PowerUnit

\* One charge was reported at full power after 1500 ms and released at half
\* power after 2250 ms
C10_Witness ==
    /\ chargeProgress.start = chargeComplete.start
    /\ ProgressHold = 1500
    /\ chargeProgress.power = MAX_LAUNCH_POWER
    /\ CompleteHold = 2250
    /\ 2 * chargeComplete.effective = MAX_LAUNCH_POWER

\* C11: the final power handed to charge-complete on a release is at least
\* MIN_LAUNCH_POWER and at most MAX_LAUNCH_POWER, for every hold duration, a
\* zero-length tap included; it is never zero.
C11_FinalPowerInRange ==
    chargeComplete.at > 0 =>
        /\ chargeComplete.final >= MIN_LAUNCH_POWER
        /\ chargeComplete.final <= MAX_LAUNCH_POWER
        /\ chargeComplete.final # 0
        /\ 10 * chargeComplete.final >= PowerUnit

\* A tap released in the millisecond of its press was handed on at the floor
C11_Witness ==
    /\ chargeComplete.at > 0
    /\ CompleteHold = 0
    /\ chargeComplete.effective = 0
    /\ chargeComplete.final = MIN_LAUNCH_POWER

-----------------------------------------------------------------------------
(* The session with its canvas: the player fires one projectile at a time, each
   leaves the world in the next frame, and React renders before the next
   callback *)

MaxSessionLaunches == 12    \* launchProjectile calls explored per run of the session

\* Milliseconds between the frames of the session
SessionGaps == {250}

InitApp == CanvasInit(PlayableLevels[1]) /\ ChargeInit /\ AppInit

SessionFrame ==
    /\ Settled
    /\ projectiles # << >>
    /\ \E dt \in SessionGaps :
          AnimateWithSession(dt, SessionBlockOutcomes, {Escaped}, {<< >>})
    /\ UNCHANGED <<chargeVars, customLevels, delegate>>

Release ==
    /\ Settled
    /\ projectiles = << >>
    /\ nextProjId <= MaxSessionLaunches
    /\ \E isDelegateModeActive \in BOOLEAN :
          HandleChargeComplete(MAX_LAUNCH_POWER, isDelegateModeActive)
    /\ UNCHANGED <<chargeVars, customLevels, delegate>>

Select ==
    /\ Settled
    /\ \E type \in ProjectileType : HandleSelectProjectileType(type)
    /\ UNCHANGED <<chargeVars, customLevels, delegate>>

ResetGame == Settled /\ HandleResetGame /\ UNCHANGED <<chargeVars, customLevels, delegate>>

Advance == Settled /\ NextLevelTimer /\ UNCHANGED <<chargeVars, customLevels, delegate>>

NextApp == SessionFrame \/ Release \/ Select \/ ResetGame \/ Advance \/ Commit

SpecApp == InitApp /\ [][NextApp]_vars

\* A frame reported the fall of a golden block of the loaded level
GoldenFallReported ==
    \E k \in DOMAIN fallenEvents' :
        /\ fallenEvents'[k][2]
        /\ emitted'[fallenEvents'[k][1]] > emitted[fallenEvents'[k][1]]

\* C2: whenever a block-fallen event with the golden flag is reported for the
\* current level, the level-won flag of the session is true afterwards,
\* whatever ammunition remains.
C2_GoldenFallWins == [][GoldenFallReported => gameState'.isLevelWon]_vars

-----------------------------------------------------------------------------
(* The charge controller and its gate: pointer input while the props, the
   orbit controls and the life of the component change under it *)

\* Milliseconds between one callback of the gated controller and the next
GateGaps == {750}

GatePress ==
    /\ \E dt \in GateGaps, button \in Buttons, onCanvas \in BOOLEAN :
          HandlePointerDown(dt, button, onCanvas)
    /\ UNCHANGED appVars
GateTick == (\E dt \in GateGaps : ChargeUpdateLoop(dt)) /\ UNCHANGED appVars
GateRelease ==
    /\ \E dt \in {0} \cup GateGaps, eventType \in ReleaseEvents :
          HandlePointerUpGlobal(dt, eventType)
    /\ UNCHANGED appVars
PropsChange == (\E props \in GateProps : PropsEffect(props)) /\ UNCHANGED appVars
CameraDrag == (\E isDragging \in BOOLEAN : ControlsDrag(isDragging)) /\ UNCHANGED appVars

NextGate ==
    GatePress \/ GateTick \/ GateRelease \/ PropsChange \/ CameraDrag \/ Unmount

SpecGate == Init /\ [][NextGate]_vars

\* The controller is Charging
Charging == isChargingActive

\* The counts of charge-start and charge-complete alternate, start first,
\* and the controller is Charging exactly between a start and its complete.
C17_Alternation ==
    /\ chargeCompletes <= chargeStarts
    /\ chargeStarts <= chargeCompletes + 1
    /\ Charging <=> chargeStarts = chargeCompletes + 1

\* C17 as stated: charge-start and charge-complete strictly alternate,
\* beginning with charge-start, and every charge gets exactly one
\* charge-complete: a charge whose complete has not been emitted is still
\* awaiting its release.
C17_OneCompletePerCharge ==
    /\ C17_Alternation
    /\ chargeStarts = chargeCompletes + 1 => upListening

\* One step of the alternation
C17_Step ==
    /\ chargeStarts' # chargeStarts =>
          /\ ~Charging /\ Charging'
          /\ chargeStarts' = chargeStarts + 1
          /\ chargeCompletes' = chargeCompletes
    /\ chargeCompletes' # chargeCompletes =>
          /\ Charging /\ ~Charging'
          /\ chargeCompletes' = chargeCompletes + 1
          /\ chargeStarts' = chargeStarts
          /\ ~chargeRafPending' /\ ~upListening'
    /\ (Charging /\ ~Charging') => chargeCompletes' = chargeCompletes + 1
    /\ (Charging /\ lastPointerEvent' \in ReleaseEvents /\ now' # now) => ~Charging'
    /\ ~mounted => UNCHANGED <<chargeStarts, chargeCompletes>>

\* C17 (amended): charge-start and charge-complete strictly alternate,
\* beginning with charge-start; no charge-start occurs while Charging; a
\* charge ended by pointer-up or pointer-cancel emits exactly one
\* charge-complete and leaves the controller Idle with its loop stopped; a
\* charge without its complete is either still awaiting its release or was
\* cut off by the teardown of the component, after which nothing is emitted.
C17_StartCompleteAlternate ==
    /\ [](C17_Alternation /\ (chargeStarts = chargeCompletes + 1 => upListening \/ ~mounted))
    /\ [][C17_Step]_vars

\* One charge has been released and reported, and the teardown has cut off
\* the next one.
C17_Witness ==
    /\ chargeCompletes >= 1
    /\ chargeStarts = chargeCompletes + 1
    /\ ~mounted

\* The state of the controller and what it has emitted
controllerVars == <<isChargingActive, chargeStartTime, chargeRafPending, upListening,
                    chargeProgress, chargeComplete, chargeStarts, chargeCompletes>>

\* can-attempt is false, auto-play is active, the camera is being dragged or
\* a charge is active
GateClosed ==
    ~canAttemptChargeRef \/ isDelegateModeActiveRef \/ isDraggingCameraRef \/ Charging

\* C18: a step that emits charge-start is taken with can-attempt true,
\* auto-play inactive, the camera not dragged and no charge active, and it
\* records the time of the press as the start time and starts the polling
\* loop; a pointer press made with any of these false changes no controller
\* state and emits nothing.
C18_PressGated ==
    [][ /\ chargeStarts' # chargeStarts =>
              /\ ~GateClosed
              /\ Charging' /\ chargeStartTime' = now' /\ chargeRafPending' /\ upListening'
        /\ (GatePress /\ GateClosed) => UNCHANGED controllerVars ]_vars

\* The controller after a release at time t of the charge in progress:
\* the loop stopped, one more charge-complete, carrying the power of the
\* elapsed time, and Idle
ReleasedAt(ctl, t) ==
    /\ ~ctl.chargeRafPending
    /\ ~ctl.isChargingActive
    /\ ~ctl.upListening
    /\ ctl.chargeCompletes = chargeCompletes + 1
    /\ ctl.chargeStartTime = chargeStartTime
    /\ ctl.chargeComplete.start = chargeStartTime
    /\ ctl.chargeComplete.at = t
    /\ ctl.chargeComplete.final =
          IF t = chargeStartTime THEN MIN_LAUNCH_POWER
          ELSE Max(MIN_LAUNCH_POWER, SawtoothOf(t - chargeStartTime))

\* In a Charging state, a pointerup and a pointercancel delivered after the
\* same time leave the same controller, released
C19_State ==
    (Charging /\ upListening) =>
        \A dt \in ReleaseGaps :
            /\ ReleaseCharge(Controller, "pointerup", now + dt)
                  = ReleaseCharge(Controller, "pointercancel", now + dt)
            /\ ReleasedAt(ReleaseCharge(Controller, "pointercancel", now + dt), now + dt)

\* A step that ends a charge leaves the controller that either event gives
C19_Step ==
    (Charging /\ ~Charging') =>
        /\ lastPointerEvent' \in ReleaseEvents
        /\ \A eventType \in ReleaseEvents :
              Controller' = ReleaseCharge(Controller, eventType, now')

\* C19: from any Charging state, a pointer-cancel and a pointer-up at the
\* same elapsed time have the same effect: the polling loop stops,
\* charge-complete is emitted once with the same final power, and the
\* controller is Idle.
C19_CancelLikeUp == []C19_State /\ [][C19_Step]_vars

\* A charge held for half the charge duration has just been ended by a
\* pointercancel and reported with half the full power.
C19_Witness ==
    /\ lastPointerEvent = "pointercancel"
    /\ ~Charging /\ ~chargeRafPending /\ ~upListening
    /\ chargeCompletes = chargeStarts
    /\ chargeComplete.at = now
    /\ chargeComplete.at - chargeComplete.start = 750
    /\ 2 * chargeComplete.final = MAX_LAUNCH_POWER

\* While the component is mounted a running charge has its next poll
\* scheduled and its release listened for, whatever the gate says.
C20_State == (Charging /\ mounted) => (chargeRafPending /\ upListening)

\* A poll of a running charge reports progress and schedules the next poll,
\* a release of a running charge reports it, and a change of the gate leaves
\* the controller and what it has emitted alone.
C20_Step ==
    /\ (GateTick /\ Charging) =>
          /\ chargeProgress'.at = now' /\ chargeProgress'.start = chargeStartTime
          /\ chargeProgress'.power = SawtoothPower(now' - chargeStartTime)
          /\ Charging' /\ chargeRafPending'
    /\ (GateRelease /\ Charging) =>
          /\ chargeCompletes' = chargeCompletes + 1
          /\ chargeComplete'.at = now' /\ chargeComplete'.start = chargeStartTime
    /\ gateVars' # gateVars => UNCHANGED controllerVars

\* C20: once charging has started, every poll tick emits charge-progress and
\* the release emits charge-complete even if can-attempt (which carries
\* game-over and level-won) or auto-play change during the hold; the
\* controller never aborts a running charge because of the gate; the polling
\* loop runs with no frame of the main loop being taken.
C20_ChargeOutlivesGate == []C20_State /\ [][C20_Step]_vars

\* A charge was polled and then released, both with can-attempt false.
C20_Witness ==
    /\ ~Charging
    /\ chargeCompletes >= 1
    /\ chargeProgress.start = chargeComplete.start
    /\ chargeProgress.at > chargeProgress.start
    /\ ~chargeProgress.canAttempt
    /\ ~chargeComplete.canAttempt

\* After an earlier charge, the latest press on the canvas was made with the
\* gate closed for a reason other than a running charge, and was ignored.
C18_Witness ==
    /\ chargeStarts >= 1
    /\ lastPointerEvent = "pointerdown ignored"
    /\ ~Charging
    /\ GateClosed

-----------------------------------------------------------------------------
(* The two loops: the frame loop and the polling loop of the charge side by
   side, from init to the cleanup *)

\* Milliseconds between one callback and the next
LoopGaps == {750}

LoopPress ==
    /\ \E dt \in LoopGaps, button \in Buttons, onCanvas \in BOOLEAN :
          HandlePointerDown(dt, button, onCanvas)
    /\ UNCHANGED appVars
LoopTick == (\E dt \in LoopGaps : ChargeUpdateLoop(dt)) /\ UNCHANGED appVars
LoopRelease ==
    /\ \E dt \in {0} \cup LoopGaps, eventType \in ReleaseEvents :
          HandlePointerUpGlobal(dt, eventType)
    /\ UNCHANGED appVars
LoopFrame ==
    /\ \E dt \in LoopGaps : Animate(dt, SessionBlockOutcomes, ProjectileOutcomes, {<< >>})
    /\ Idle

NextLoops == LoopPress \/ LoopTick \/ LoopRelease \/ LoopFrame \/ Unmount

SpecLoops == Init /\ [][NextLoops]_vars

\* A polling callback is scheduled only during a charge, and after the
\* cleanup neither loop has a callback scheduled.
C21_State ==
    /\ chargeRafPending => Charging
    /\ ~mounted => (~frameRafPending /\ ~chargeRafPending)

\* Progress is reported only within a charge, for that charge; after the
\* cleanup no frame runs.
C21_Step ==
    /\ chargeProgress' # chargeProgress =>
          /\ Charging /\ Charging'
          /\ chargeProgress'.start = chargeStartTime
          /\ chargeProgress'.start > chargeComplete.start
    /\ ~mounted =>
          UNCHANGED <<lastCallTime, physicsObjects, projectiles, fallenEvents, emitted>>

\* C21: after a loop has been stopped no further callback of it fires:
\* after charge-complete no charge-progress is reported until the next
\* charge-start, and after the teardown of the canvas no frame of the main
\* loop runs.
C21_NoCallbackAfterStop == []C21_State /\ [][C21_Step]_vars

\* Frames have run and a charge has been polled and released; then the
\* canvas was torn down.
C21_Witness ==
    /\ ~mounted
    /\ ~Charging
    /\ chargeCompletes >= 1
    /\ chargeProgress.start = chargeComplete.start
    /\ chargeProgress.at > chargeProgress.start
    /\ lastCallTime > 1000

\* Stopping a stopped loop is stopping it once, and stopping a loop that is
\* not running leaves it as it is; so for both loops.
C22_State ==
    /\ StopCharge(StopCharge(chargeRafPending)) = StopCharge(chargeRafPending)
    /\ ~chargeRafPending => StopCharge(chargeRafPending) = chargeRafPending
    /\ CancelFrame(CancelFrame(frameRafPending)) = CancelFrame(frameRafPending)
    /\ ~frameRafPending => CancelFrame(frameRafPending) = frameRafPending

\* The cleanup, which calls stopCharge and cancels the frame loop, reports
\* nothing; made while the polling loop is not running it leaves the
\* controller as it is.
C22_Step ==
    (mounted /\ ~mounted') =>
        /\ UNCHANGED <<chargeProgress, chargeComplete, chargeStarts, chargeCompletes,
                       fallenEvents, emitted, lastCallTime>>
        /\ ~chargeRafPending => UNCHANGED controllerVars

\* C22: stopping is idempotent: stopCharge called while the polling loop is
\* not running, or twice in a row, changes no state and reports nothing, and
\* so does the cancelling of the frame loop at teardown.
C22_StopIdempotent == []C22_State /\ [][C22_Step]_vars

\* The release of a charge has stopped the polling loop, and the cleanup
\* has called stopCharge again right after it.
C22_Witness ==
    /\ ~mounted
    /\ ~Charging
    /\ lastPointerEvent \in ReleaseEvents
    /\ chargeComplete.at = now
    /\ chargeCompletes >= 1

-----------------------------------------------------------------------------
(* The launch: projectiles of every type, at several powers and along
   several view directions, each leaving the world in the frame after *)

\* Launch powers in units of 1/PowerUnit: the floor, half and full
LaunchPowers == {MIN_LAUNCH_POWER, MAX_LAUNCH_POWER \div 2, MAX_LAUNCH_POWER}

\* Unit view directions of the camera whose components are exact
LaunchDirs == { Vec(0, 0, -1000), Vec(0, -600, -800), Vec(600, 0, -800) }

LaunchAny ==
    /\ nextProjId <= MaxLaunches
    /\ \E launchPower \in LaunchPowers, type \in ProjectileType, camDir \in LaunchDirs :
          LaunchProjectileAlong(launchPower, type, camDir)
    /\ Idle
LaunchFrame ==
    /\ \E dt \in FrameGaps : Animate(dt, SessionBlockOutcomes, {Escaped}, {<< >>})
    /\ Idle

NextLaunch == LaunchAny \/ LaunchFrame \/ Reset \/ Unmount

SpecLaunch == Init /\ [][NextLaunch]_vars

\* The step has appended one projectile of the given type, launched with
\* the given power along camDir, and added its body and its mesh
Launched(launchPower, type, camDir) ==
    LET proj  == projectiles'[Len(projectiles')]
        speed == Length(proj.body.velocity)
    IN  /\ Len(projectiles') = Len(projectiles) + 1
        /\ SubSeq(projectiles', 1, Len(projectiles)) = projectiles
        /\ proj.projectileType = type
        /\ ~proj.isSubmunition
        /\ ~proj.hasSplit
        /\ proj.creationTime = now
        /\ proj.lifeSpan = CASE type = "EXPLOSIVE" -> 3000
                              [] type = "CLUSTER"   -> 1000
                              [] OTHER              -> NoLifeSpan
        /\ speed * speed = LengthSquared(proj.body.velocity)
        /\ speed * PowerUnit = PROJECTILE_VELOCITY_MULTIPLIER * launchPower * 1000
        /\ proj.body.velocity.x * 1000 = camDir.x * speed
        /\ proj.body.velocity.y * 1000 = camDir.y * speed
        /\ proj.body.velocity.z * 1000 = camDir.z * speed
        /\ worldBodies' = worldBodies (+) SetToBag({ProjHandle(proj.id)})
        /\ sceneMeshes' = sceneMeshes (+) SetToBag({ProjHandle(proj.id)})
        /\ ~BagIn(ProjHandle(proj.id), worldBodies)
        /\ physicsObjects' = physicsObjects

\* C23: each call of launchProjectile(power, type) with the world in place
\* adds exactly one projectile of that type to the active set and exactly
\* one body to the world, with initial speed PROJECTILE_VELOCITY_MULTIPLIER
\* times power along the camera direction, lifespan 3000 ms for explosive,
\* 1000 ms for cluster and none for standard and heavy, and its split flag
\* false.
C23_LaunchAddsOne ==
    [][ \A launchPower \in LaunchPowers, type \in ProjectileType, camDir \in LaunchDirs :
          (mounted /\ LaunchProjectileAlong(launchPower, type, camDir))
              => Launched(launchPower, type, camDir) ]_vars

\* A cluster launched at half power along a slanted view direction is the
\* second projectile in flight, next to an explosive one.
C23_Witness ==
    /\ Len(projectiles) = 2
    /\ projectiles[1].projectileType = "EXPLOSIVE"
    /\ projectiles[1].lifeSpan = EXPLOSIVE_PROJECTILE_LIFESPAN_MS
    /\ projectiles[2].projectileType = "CLUSTER"
    /\ projectiles[2].lifeSpan = CLUSTER_SPLIT_DELAY_MS
    /\ ~projectiles[2].hasSplit
    /\ projectiles[2].creationTime = now
    /\ projectiles[2].body.velocity = Vec(0, -7500, -10000)
    /\ BagCardinality(worldBodies) = Len(physicsObjects) + 2

-----------------------------------------------------------------------------
(* A structure without a golden block: the one-cylinder level under frames,
   one launch and resets *)

InitNoKing == CanvasInit(LevelNoKing) /\ ChargeInit /\ AppInit

NoKingFrame ==
    /\ \E dt \in FrameGaps : Animate(dt, FineBlockOutcomes, ProjectileOutcomes, ContactSeqs)
    /\ Idle
NoKingLaunch ==
    /\ nextProjId <= MaxClusterLaunches
    /\ \E type \in {"STANDARD", "EXPLOSIVE"} : LaunchProjectile(MAX_LAUNCH_POWER, type)
    /\ Idle
NoKingReset == ResetLevel(LevelNoKing) /\ Idle

NextNoKing == NoKingFrame \/ NoKingLaunch \/ NoKingReset

SpecNoKing == InitNoKing /\ [][NextNoKing]_vars

\* C24: for a loaded structure with no golden block, no block-fallen event
\* carries isGolden = true, getGoldenBlockPosition returns null, and no
\* entity of the structure is golden, in every reachable state.
C24_NoGoldenInvented ==
    /\ \A k \in DOMAIN fallenEvents : ~fallenEvents[k][2]
    /\ GetGoldenBlockPosition(physicsObjects) = << >>
    /\ \A i \in DOMAIN physicsObjects : ~physicsObjects[i].isKing

\* The only block of the structure has fallen and was reported as not golden.
C24_Witness ==
    /\ fallenEvents = << <<"post", FALSE>> >>
    /\ physicsObjects[1].isFallen
    /\ GetGoldenBlockPosition(physicsObjects) = << >>

-----------------------------------------------------------------------------
(* The level library of App: the levels of the editor, of AI generation and of
   an imported file, and the list the game plays from.  A level carries its id,
   name, structure and initialProjectiles; the camera fields and the message
   are left out. *)

MaxCustomLevels == 3   \* customLevels entries explored per run
MaxImportFile == 2     \* levels in one imported library file

LevelConfiguration(levelId, name, structure, initialProjectiles) ==
    [levelId |-> levelId, name |-> name, structure |-> structure,
     initialProjectiles |-> initialProjectiles]

\* A structure with two golden blocks
LevelTwoKings ==
    << BlockConf("king", 0, BLOCK_SIZE \div 2, 0, "cube", TRUE),
       BlockConf("ball", BLOCK_SIZE, BLOCK_SIZE \div 2, 0, "sphere", TRUE) >>

\* PREDEFINED_LEVELS, reduced to the two small levels of the session
PREDEFINED_LEVELS ==
    << LevelConfiguration(1, "Level 1", LevelKing, 10),
       LevelConfiguration(2, "Level 2", LevelSphereCube, 8) >>

\* allPlayableLevels as handleSaveCustomLevel and handleImportLibrary set it
AllPlayableLevels == PREDEFINED_LEVELS \o customLevels

\* structure.filter(b => b.isKing).length
GoldenCount(structure) == Cardinality({i \in DOMAIN structure : structure[i].isKing})

\* The level ids and names a user, a file or Date.now()/Math.random() can give;
\* "" is the empty (falsy) string
LevelIds == {"", "custom_1", "custom_2"}
LevelNames == {"", "Tower", "Wall"}
Structures == {<< >>, LevelKing, LevelSphereCube, LevelNoKing, LevelTwoKings}

\* The editor's state at a save: levelName (trimmed), initialProjectiles,
\* structure and editingLevelId ("" when the level is new)
EditorStates ==
    [levelName : LevelNames, initialProjectiles : {0, 5}, structure : Structures,
     editingLevelId : LevelIds]

\* validateAndGetLevelConfig(): the level of the editor's state, or null (<< >>)
ValidateAndGetLevelConfig(editor, generatedId) ==
    IF editor.levelName = "" THEN << >>
    ELSE IF editor.initialProjectiles < 1 THEN << >>
    ELSE IF Len(editor.structure) = 0 THEN << >>
    ELSE IF GoldenCount(editor.structure) = 0 THEN << >>
    ELSE IF GoldenCount(editor.structure) > 1 THEN << >>
    ELSE << LevelConfiguration(IF editor.editingLevelId # "" THEN editor.editingLevelId
                                                              ELSE generatedId,
                               editor.levelName, editor.structure,
                               editor.initialProjectiles) >>

\* handleSaveCustomLevel(levelData, originalLevelIdToUpdate)
HandleSaveCustomLevel(levelData, originalLevelIdToUpdate) ==
    customLevels' =
        IF originalLevelIdToUpdate # ""
        THEN [i \in DOMAIN customLevels |->
                 IF customLevels[i].levelId = originalLevelIdToUpdate
                 THEN [levelData EXCEPT !.levelId = originalLevelIdToUpdate]
                 ELSE customLevels[i]]
        ELSE Append(customLevels, levelData)

\* handleSaveLevel of the editor: onSave is called when the validation passes
HandleSaveLevel(editor, generatedId) ==
    LET newLevel == ValidateAndGetLevelConfig(editor, generatedId)
    IN  IF newLevel # << >>
        THEN HandleSaveCustomLevel(newLevel[1], editor.editingLevelId)
        ELSE UNCHANGED customLevels

\* The filter of handleImportLibrary: a level with its required fields whose
\* id and name are not in the library yet
ImportAccepts(importedLevel) ==
    /\ ~(importedLevel.levelId = "" \/ importedLevel.name = "")
    /\ ~(\/ \E i \in DOMAIN customLevels : customLevels[i].levelId = importedLevel.levelId
         \/ \E i \in DOMAIN customLevels : customLevels[i].name = importedLevel.name)

\* handleImportLibrary(file), for a file that parses to an array of levels whose
\* structure is an array and whose initialProjectiles is a number
HandleImportLibrary(importedLevels) ==
    LET validNewLevels == SelectSeq(importedLevels, ImportAccepts)
    IN  customLevels' = IF Len(validNewLevels) > 0
                        THEN customLevels \o validNewLevels
                        ELSE customLevels

\* The levels a library file can hold
ImportedLevels ==
    { LevelConfiguration(id, name, structure, 5) :
         id \in LevelIds, name \in LevelNames, structure \in Structures }

ImportFiles ==
    UNION { [1..n -> ImportedLevels] : n \in 0..MaxImportFile }

\* The library after the first load, nothing stored: no custom levels
InitLibrary == CanvasInit(LevelKing) /\ ChargeInit /\ AppInit

LibraryIdle ==
    UNCHANGED <<canvasVars, chargeVars, gameState, fallenBlockIds, rendered, delegate>>

SaveLevel ==
    /\ \E editor \in EditorStates, generatedId \in LevelIds \ {""} :
          /\ HandleSaveLevel(editor, generatedId)
          /\ Len(customLevels') <= MaxCustomLevels
    /\ LibraryIdle

ImportLibrary ==
    /\ \E importedLevels \in ImportFiles :
          /\ HandleImportLibrary(importedLevels)
          /\ Len(customLevels') <= MaxCustomLevels
    /\ LibraryIdle

NextLibrary == SaveLevel \/ ImportLibrary

SpecLibrary == InitLibrary /\ [][NextLibrary]_vars

\* C25: every level of the playable list, whether saved from the editor, taken
\* from AI generation or imported into the custom library, has exactly one
\* block with the golden flag
C25_OneGoldenPerLevel ==
    \A i \in DOMAIN AllPlayableLevels : GoldenCount(AllPlayableLevels[i].structure) = 1

-----------------------------------------------------------------------------
(* The restart of a level: handleResetGame and the auto-advance timer, both
   through setupLevel *)

\* A step that (re)starts a level
Restart == ResetGame \/ Advance

\* C26: on every level (re)start the session is fully reset: the score is 0,
\* every ammunition count is back at its initial value, level-won and game-over
\* are false and no block is recorded as fallen
C26_RestartResetsSession ==
    [][ Restart =>
          /\ gameState'.score = 0
          /\ gameState'.projectileCounts = InitialGameState.projectileCounts
          /\ ~gameState'.isLevelWon
          /\ ~gameState'.isGameOver
          /\ fallenBlockIds' = {} ]_vars

\* A restart has just wiped a session that had points, spent ammunition,
\* recorded falls and a raised flag: the render of the old session is still shown
C26_Witness ==
    /\ rendered.gameState.score > 0
    /\ rendered.fallenBlockIds # {}
    /\ rendered.gameState.projectileCounts # InitialGameState.projectileCounts
    /\ rendered.gameState.isLevelWon \/ rendered.gameState.isGameOver
    /\ gameState.score = 0
    /\ gameState.projectileCounts = InitialGameState.projectileCounts
    /\ ~gameState.isLevelWon
    /\ ~gameState.isGameOver
    /\ fallenBlockIds = {}

\* C27: after the setup of a level that gives no per-type counts the remaining
\* STANDARD ammunition equals the level's initialProjectiles
C27_AmmoFromLevel ==
    [][ Restart =>
          gameState'.projectileCounts["STANDARD"] =
              PREDEFINED_LEVELS[gameState'.currentLevelIndex + 1].initialProjectiles ]_vars

-----------------------------------------------------------------------------
(* The world and the scene: projectiles of every type against the one-block
   level, with resets and the teardown of the canvas *)

\* Collide events of one explosive body in a step: none, or one hard hit on a block
WorldContactSeqs ==
    { << >>, << [kind |-> "block", idx |-> 1, impact |-> IMPACT_THRESHOLD + 1] >> }

WorldFrame ==
    /\ \E dt \in FrameGaps :
          Animate(dt, SessionBlockOutcomes, ProjectileOutcomes, WorldContactSeqs)
    /\ Idle
WorldLaunch ==
    /\ nextProjId <= MaxLaunches
    /\ \E type \in ProjectileType :
          /\ type = "CLUSTER" => nextProjId <= MaxClusterLaunches
          /\ LaunchProjectile(MAX_LAUNCH_POWER, type)
    /\ Idle

NextWorld == WorldFrame \/ WorldLaunch \/ Reset \/ Unmount

SpecWorld == Init /\ [][NextWorld]_vars

\* C12: of two resetLevel calls in a row with the same configuration, the
\* second leaves the same number of structure entities and the same number of
\* bodies in the physics world (and of meshes in the scene) as the first,
\* whatever was live before the first.
C12_ResetIdempotent ==
    Len(resetLog) = 2 =>
        /\ resetLog[2].entities = resetLog[1].entities
        /\ resetLog[2].bodies = resetLog[1].bodies
        /\ resetLog[2].meshes = resetLog[1].meshes
        /\ resetLog[2].bodies = BagCardinality(worldBodies)
        /\ resetLog[2].entities = Len(physicsObjects)

\* Two resets in a row, the first with submunitions and a burst or a further
\* projectile live
C12_Witness ==
    /\ Len(resetLog) = 2
    /\ resetLog[1].liveBefore > SUBMUNITION_COUNT
    /\ resetLog[2].liveBefore = 0

\* C13: after resetLevel(levelConfig) the active projectiles and the particle
\* bursts are empty and the structure is exactly one unfallen entity per
\* block definition of levelConfig, in its configured place; when the rebuild
\* began creating entities, no body of the previous structure (or of a
\* projectile) was left in the world.
C13_ResetRebuilds ==
    resetLog # << >> =>
        /\ projectiles = << >>
        /\ explosionParticleSystems = << >>
        /\ Len(physicsObjects) = Len(LevelKing)
        /\ \A i \in DOMAIN physicsObjects :
              /\ physicsObjects[i].id = LevelKing[i].id
              /\ physicsObjects[i].isKing = LevelKing[i].isKing
              /\ ~physicsObjects[i].isFallen
              /\ physicsObjects[i].body.position =
                    Vec(LevelKing[i].x, LevelKing[i].y, LevelKing[i].z)
        /\ resetLog[Len(resetLog)].atRebuild = 0
        /\ resetLog[Len(resetLog)].bodies = Len(LevelKing)

\* A reset that found projectiles or bursts live
C13_Witness ==
    /\ Len(resetLog) = 1
    /\ resetLog[1].liveBefore > 1
    /\ nextProjId > MaxLaunches

\* The tracked entities: the structure and the active projectiles
TrackedHandles == BlockHandles(physicsObjects) \o ProjHandles(projectiles)

\* C14: after every frame, launch, reset and teardown, a body is in the
\* physics world iff its mesh is in the scene, and the bodies in the world are
\* exactly the bodies of the tracked structure entities and active
\* projectiles, each once.
C14_BodyAndMeshTogether ==
    /\ worldBodies = sceneMeshes
    /\ \A h \in BagToSet(worldBodies) :
          /\ CopiesIn(h, worldBodies) = 1
          /\ Cardinality({k \in DOMAIN TrackedHandles : TrackedHandles[k] = h}) = 1
    /\ \A k \in DOMAIN TrackedHandles : BagIn(TrackedHandles[k], worldBodies)
    /\ ~mounted => worldBodies = EmptyBag

\* Of two launched projectiles a frame has removed the second and kept the first
C14_Witness ==
    /\ mounted
    /\ nextProjId > MaxLaunches
    /\ Len(projectiles) = 1
    /\ projectiles[1].id = <<1>>
    /\ BagIn(ProjHandle(<<1>>), worldBodies)
    /\ ~BagIn(ProjHandle(<<2>>), worldBodies)

-----------------------------------------------------------------------------
(* The removal sweep and the launched explosive and cluster projectiles *)

\* A launched explosive or cluster projectile (a "parent"), not a submunition
FusedParent(proj) ==
    proj.projectileType \in {"EXPLOSIVE", "CLUSTER"} /\ ~proj.isSubmunition

\* Every parent the latest sweep removed had exploded or split, or was below
\* the world floor
C28_State ==
    \A k \in DOMAIN removedParents :
        FusedParent(removedParents[k]) =>
            \/ removedParents[k].hasSplit
            \/ removedParents[k].body.position.y < FLOOR_Y

\* A frame takes a parent out of the active set through its sweep only
C28_Step ==
    (mounted /\ now' # now) =>
        \A i \in DOMAIN projectiles :
            FusedParent(projectiles[i]) =>
                \/ \E j \in DOMAIN projectiles' : projectiles'[j].id = projectiles[i].id
                \/ \E k \in DOMAIN removedParents' : removedParents'[k].id = projectiles[i].id

\* C28: the sweep removes an explosive or cluster parent only if it has
\* exploded or split or is below y = -10, never merely for being asleep; a
\* cluster parent that falls asleep before its split delay stays in the
\* active set until it splits
C28_ParentsOutliveSleep == []C28_State /\ [][C28_Step]_vars

\* A frame found an explosive and a cluster parent both asleep on the ground:
\* the explosive exploded and was removed for that, the cluster parent, its
\* split delay not over, is still active
C28_Witness ==
    /\ \E k \in DOMAIN removedParents :
          /\ removedParents[k].projectileType = "EXPLOSIVE"
          /\ removedParents[k].hasSplit
          /\ Resting(removedParents[k].body)
    /\ \E i \in DOMAIN projectiles :
          /\ projectiles[i].projectileType = "CLUSTER"
          /\ ~projectiles[i].isSubmunition
          /\ InFlightBefore(projectiles[i])
          /\ Resting(projectiles[i].body)
          /\ ~projectiles[i].hasSplit
          /\ ~Expired(projectiles[i], now)

-----------------------------------------------------------------------------
(* Collisions that do not detonate: explosives in flight whose every frame
   brings collide events with the ground, with another projectile, and with a
   block at an impact speed of at most 1.0 *)

\* Collide events without a hard hit on a block; the impact speeds are along
\* the contact normal, of either sign
GrazeContacts ==
    { [kind |-> "ground",     idx |-> 0, impact |-> 5 * IMPACT_THRESHOLD],
      [kind |-> "projectile", idx |-> 1, impact |-> -5 * IMPACT_THRESHOLD],
      [kind |-> "block",      idx |-> 1, impact |-> IMPACT_THRESHOLD],
      [kind |-> "block",      idx |-> 1, impact |-> -IMPACT_THRESHOLD],
      [kind |-> "block",      idx |-> 1, impact |-> 0] }

\* At least one collide event for every explosive in every frame
GrazeContactSeqs == SeqsUpTo(GrazeContacts, MaxContacts) \ { << >> }

GrazeFrame ==
    /\ \E dt \in FrameGaps :
          Animate(dt, SessionBlockOutcomes, {Flying}, GrazeContactSeqs)
    /\ Idle
GrazeLaunch ==
    /\ nextProjId <= MaxLaunches
    /\ \E type \in {"STANDARD", "EXPLOSIVE"} : LaunchProjectile(MAX_LAUNCH_POWER, type)
    /\ Idle

NextGraze == GrazeFrame \/ GrazeLaunch \/ Reset

SpecGraze == Init /\ [][NextGraze]_vars

\* C29: a collision with the ground, with another projectile, or with a block
\* at an impact speed of at most 1.0 does not detonate an explosive: no
\* explosion comes from a collide event, and an explosive within its time
\* limit keeps its flag clear and has caused no explosion
C29_SoftContactsDoNotDetonate ==
    /\ \A n \in DOMAIN explosionLog :
          \A k \in DOMAIN explosionLog[n] : explosionLog[n][k] # "collide"
    /\ \A i \in DOMAIN projectiles :
          ActiveExplosive(projectiles[i]) =>
              /\ ~projectiles[i].hasSplit
              /\ explosionLog[ParentOf(projectiles[i].id)] = << >>
    /\ \A k \in DOMAIN removedParents :
          removedParents[k].projectileType = "EXPLOSIVE" =>
              Expired(removedParents[k], now)

\* Two explosives have been through frames full of such collisions, one for
\* two frames, and both are still armed
C29_Witness ==
    /\ Len(projectiles) >= 2
    /\ \A i \in DOMAIN projectiles :
          /\ ActiveExplosive(projectiles[i])
          /\ InFlightBefore(projectiles[i])
          /\ projectiles[i].listening
          /\ ~projectiles[i].hasSplit
    /\ \E i \in DOMAIN projectiles : now - projectiles[i].creationTime >= 2 * 1000
    /\ explosionParticleSystems = << >>

-----------------------------------------------------------------------------
(* The lifespan of the submunitions: one cluster projectile, followed until
   its submunitions have outlived SUBMUNITION_LIFESPAN_MS *)

MaxSubmunitionTime == 11000   \* performance.now() is explored up to this value here

\* Milliseconds between the frames: the lifespan is met exactly by the second
\* frame after the split
SubmunitionGaps == {2500}

\* A frame in which every projectile stays in flight
SubmunitionFlight ==
    /\ \E dt \in SubmunitionGaps :
          AnimateUntil(dt, MaxSubmunitionTime, SessionBlockOutcomes, {Flying}, {<< >>})
    /\ Idle
\* A frame in which a projectile may also come to rest or leave the world
SubmunitionFrame ==
    /\ \E dt \in SubmunitionGaps :
          AnimateUntil(dt, MaxSubmunitionTime, SessionBlockOutcomes, ProjectileOutcomes, {<< >>})
    /\ Idle

NextSubmunition == SubmunitionFrame \/ ClusterLaunch

SpecSubmunition == Init /\ [][NextSubmunition]_vars

\* No submunition has split or exploded, and none has spawned anything: a
\* cluster has spawned at most SUBMUNITION_COUNT projectiles and nothing has
\* exploded
C30_State ==
    /\ \A i \in DOMAIN projectiles :
          projectiles[i].isSubmunition =>
              /\ projectiles[i].projectileType = "STANDARD"
              /\ ~projectiles[i].hasSplit
              /\ ~projectiles[i].listening
    /\ \A n \in DOMAIN spawnCount : spawnCount[n] <= SUBMUNITION_COUNT
    /\ \A n \in DOMAIN explosionLog : explosionLog[n] = << >>
    /\ explosionParticleSystems = << >>

\* A frame leaves no submunition that went through its sweep with its lifespan
\* elapsed, at rest or below the floor (the submunitions spawned by the frame
\* join after the sweep); a frame in which every projectile stays in flight
\* keeps each submunition whose lifespan has not elapsed
C30_Step ==
    /\ (mounted /\ now' # now) =>
          \A j \in DOMAIN projectiles' :
              (projectiles'[j].isSubmunition /\ projectiles'[j].creationTime < now') =>
                  /\ ~Expired(projectiles'[j], now')
                  /\ projectiles'[j].creationTime > 0
                  /\ projectiles'[j].lifeSpan = SUBMUNITION_LIFESPAN_MS
                  /\ ~Resting(projectiles'[j].body)
                  /\ ~(projectiles'[j].body.position.y < FLOOR_Y)
    /\ SubmunitionFlight =>
          \A i \in DOMAIN projectiles :
              (projectiles[i].isSubmunition
                  /\ now' - projectiles[i].creationTime <= SUBMUNITION_LIFESPAN_MS)
              => \E j \in DOMAIN projectiles' : projectiles'[j].id = projectiles[i].id

\* C30: each submunition is removed by the first sweep after its own 5000 ms
\* lifespan, counted from the frame of the split, has elapsed, unless it was
\* removed earlier for resting or for falling below y = -10; a submunition
\* never itself splits or explodes
C30_SubmunitionLifespan == []C30_State /\ [][C30_Step]_vars

\* A submunition has been through the sweep exactly 5000 ms after the split
\* and is still active: the next sweep is the first after its lifespan
C30_Witness ==
    /\ now + 2500 <= MaxSubmunitionTime
    /\ \E i \in DOMAIN projectiles :
          /\ projectiles[i].isSubmunition
          /\ now - projectiles[i].creationTime = SUBMUNITION_LIFESPAN_MS
          /\ lastCallTime = now

-----------------------------------------------------------------------------
(* The particle bursts of the explosions: explosives launched early enough for
   their explosion and the whole life of its burst to fall inside the time
   window, and a frame loop that keeps running *)

MaxBurstTime == 6200   \* performance.now() is explored up to this value here

\* Milliseconds between the frames: a burst is exactly 800 ms old in the
\* second frame after its explosion
BurstGaps == {400}

\* The longest time from a launch to the frame that disposes of the burst: the
\* time limit of the explosive, one frame to pass it, the lifespan of the
\* burst, one frame to pass it
BurstWindow ==
    EXPLOSIVE_PROJECTILE_LIFESPAN_MS + EXPLOSION_PARTICLE_LIFESPAN_MS + 2 * 400

BurstContactSeqs ==
    { << >>, << [kind |-> "block", idx |-> 1, impact |-> IMPACT_THRESHOLD + 1] >> }

BurstFrame ==
    /\ \E dt \in BurstGaps :
          AnimateUntil(dt, MaxBurstTime, SessionBlockOutcomes, ProjectileOutcomes,
                       BurstContactSeqs)
    /\ Idle
BurstLaunch ==
    /\ nextProjId <= MaxLaunches
    /\ now + BurstWindow <= MaxBurstTime
    /\ LaunchProjectile(MAX_LAUNCH_POWER, "EXPLOSIVE")
    /\ Idle

NextBurst == BurstFrame \/ BurstLaunch

\* requestAnimationFrame keeps calling animate
SpecBurst == Init /\ [][NextBurst]_vars /\ WF_vars(BurstFrame)

\* The bursts of `systems` that are at most the lifespan old at currentTime
YoungBursts(systems, currentTime) ==
    SelectSeq(systems,
              LAMBDA sys : currentTime - sys.creationTime <= EXPLOSION_PARTICLE_LIFESPAN_MS)

\* A frame keeps exactly the bursts that are at most 800 ms old and adds one
\* burst, created in this frame, for each of its explosions
C31_Step ==
    (mounted /\ now' # now) =>
        /\ Len(explosionParticleSystems') =
              Len(YoungBursts(explosionParticleSystems, now')) + Len(blasts')
        /\ \A k \in DOMAIN explosionParticleSystems' :
              IF k <= Len(YoungBursts(explosionParticleSystems, now'))
              THEN explosionParticleSystems'[k] =
                       YoungBursts(explosionParticleSystems, now')[k]
              ELSE explosionParticleSystems'[k].creationTime = now'

\* C31: every explosion adds exactly one particle burst, every burst is
\* removed from the active bursts in the first frame in which its age exceeds
\* 800 ms, and with the frames running on, the bursts are eventually gone for
\* good after the last explosion
C31_BurstsDieOut ==
    /\ [][C31_Step]_vars
    /\ <>[](explosionParticleSystems = << >>)

\* Two explosives have exploded, the burst of one has been disposed of and the
\* burst of the other, exactly 800 ms old, has been kept by the latest frame
C31_Witness ==
    /\ \A n \in DOMAIN explosionLog : Len(explosionLog[n]) = 1
    /\ Len(explosionParticleSystems) = 1
    /\ now - explosionParticleSystems[1].creationTime = EXPLOSION_PARTICLE_LIFESPAN_MS

-----------------------------------------------------------------------------
(* The game-over flag of the session *)

OnLastLevel(gs) == gs.currentLevelIndex = Len(PlayableLevels) - 1

\* The render whose out-of-ammo effect finds every count at zero in a level
\* that is neither won nor over
OutOfAmmoRender ==
    /\ Commit
    /\ TotalProjectilesLeft(gameState.projectileCounts) = 0
    /\ ~gameState.isLevelWon
    /\ ~gameState.isGameOver

\* Game over without a won level means that no ammunition is left
C32_State ==
    (gameState.isGameOver /\ ~gameState.isLevelWon) =>
        TotalProjectilesLeft(gameState.projectileCounts) = 0

\* The flag is raised by the out-of-ammo render and by the fall of the golden
\* block of the last level, and by nothing else
C32_Step ==
    /\ OutOfAmmoRender => gameState'.isGameOver
    /\ (GoldenFallReported /\ OnLastLevel(gameState)) => gameState'.isGameOver
    /\ (~gameState.isGameOver /\ gameState'.isGameOver) =>
          \/ OutOfAmmoRender
          \/ GoldenFallReported /\ OnLastLevel(gameState) /\ gameState'.isLevelWon

\* C32: the game-over flag is set when the total remaining ammunition over all
\* types reaches zero while the level is not won, or when the golden block of
\* the last level is toppled; in every reachable state game over with
\* level-won false implies that the total remaining ammunition is zero
C32_GameOverMeansOutOfAmmo == []C32_State /\ [][C32_Step]_vars

\* The session is over for lack of ammunition, the level not won, and the
\* render shows it
C32_Witness ==
    /\ gameState.isGameOver
    /\ ~gameState.isLevelWon
    /\ TotalProjectilesLeft(gameState.projectileCounts) = 0
    /\ Settled

-----------------------------------------------------------------------------
(* Auto-play (delegate mode): the toggle, the firing interval and its 300 ms
   launch timeouts, next to manual release, reset, the level advance and the
   editor and library overlays.  The interval (2500 ms) is longer than the
   timeout (300 ms): a tick of the interval finds no timeout pending. *)

MaxAutoLaunches == 3   \* launchProjectile calls explored per run of auto-play
MaxPendingTimeouts == 2   \* launch timeouts pending at once

\* The session parts of one step that the auto-play code changes
SetSession(ses) == gameState' = ses.gameState /\ delegate' = ses.delegate

\* toggleDelegateMode(), its render and the effect that follows
ToggleDelegateMode ==
    /\ \E selectedType \in EffectPicks([delegate EXCEPT !.active = ~@], rendered.gameState) :
          SetSession(DelegateEffect([gameState |-> gameState,
                                     delegate  |-> [delegate EXCEPT !.active = ~@]],
                                    rendered.gameState, selectedType))
    /\ UNCHANGED <<fallenBlockIds, rendered, customLevels, canvasVars, chargeVars>>

\* A tick of the firing interval: performDelegateAction
DelegateTick ==
    /\ delegate.interval
    /\ delegate.timeouts = << >>
    /\ \E selectedType \in DelegatePicks(rendered.gameState) :
          SetSession(PerformDelegateAction([gameState |-> gameState, delegate |-> delegate],
                                           rendered.gameState, selectedType))
    /\ UNCHANGED <<fallenBlockIds, rendered, customLevels, canvasVars, chargeVars>>

\* The oldest launch timeout fires
DelegateTimeout ==
    /\ delegate.timeouts # << >>
    /\ delegate' = [delegate EXCEPT !.timeouts = Tail(@)]
    /\ IF DelegateLaunchAllowed(delegate, rendered.gameState)
       THEN HandleLaunchProjectile(MAX_LAUNCH_POWER, Head(delegate.timeouts))
       ELSE UNCHANGED <<canvasVars, gameState, fallenBlockIds, rendered>>
    /\ UNCHANGED <<customLevels, chargeVars>>

\* toggleEditor / toggleLibrary opening an overlay: auto-play is switched
\* off, its effect clears the interval, and the canvas is no longer rendered
OpenOverlay ==
    /\ ~delegate.overlay
    /\ delegate' = [delegate EXCEPT !.overlay = TRUE, !.active = FALSE, !.interval = FALSE]
    /\ Teardown
    /\ UNCHANGED <<gameState, fallenBlockIds, rendered, customLevels>>

\* toggleEditor / toggleLibrary closing the overlay: the canvas is rendered
\* again, for the level the session is on
CloseOverlay ==
    /\ delegate.overlay
    /\ delegate' = [delegate EXCEPT !.overlay = FALSE]
    /\ Mount(PlayableLevels[rendered.gameState.currentLevelIndex + 1])
    /\ UNCHANGED <<gameState, fallenBlockIds, rendered, customLevels>>

\* handleResetGame with auto-play: the mode is switched off before setupLevel(0)
ResetGameAuto ==
    /\ HandleResetGame
    /\ delegate' = [delegate EXCEPT !.active = FALSE, !.interval = FALSE]
    /\ UNCHANGED <<customLevels, chargeVars>>

AutoFrame ==
    /\ Settled
    /\ projectiles # << >>
    /\ \E dt \in SessionGaps :
          AnimateWithSession(dt, SessionBlockOutcomes, {Escaped}, {<< >>})
    /\ UNCHANGED <<chargeVars, customLevels, delegate>>

\* A charge released on the canvas
AutoRelease ==
    /\ Settled
    /\ mounted
    /\ projectiles = << >>
    /\ nextProjId <= MaxAutoLaunches
    /\ HandleChargeComplete(MAX_LAUNCH_POWER, delegate.active)
    /\ UNCHANGED <<chargeVars, customLevels, delegate>>

AutoToggle ==
    /\ Settled
    /\ ~delegate.overlay
    /\ Len(delegate.timeouts) < MaxPendingTimeouts
    /\ ToggleDelegateMode
AutoTick == Settled /\ DelegateTick
AutoTimeout == Settled /\ nextProjId <= MaxAutoLaunches /\ DelegateTimeout
AutoOpen == Settled /\ OpenOverlay
AutoClose == Settled /\ CloseOverlay
AutoReset == Settled /\ ~delegate.overlay /\ ResetGameAuto
AutoAdvance == Settled /\ NextLevelTimer /\ UNCHANGED <<chargeVars, customLevels, delegate>>

NextAuto ==
    \/ AutoToggle \/ AutoTick \/ AutoTimeout \/ AutoOpen \/ AutoClose
    \/ AutoReset \/ AutoAdvance \/ AutoFrame \/ AutoRelease \/ Commit

SpecAuto == InitApp /\ [][NextAuto]_vars

\* A step that puts a projectile into the physics world
LaunchedNow == mounted /\ nextProjId' = nextProjId + 1

\* C33: a projectile is launched into the physics world, by hand or by
\* auto-play, only when the remaining count of its type is at least 1 at that
\* moment, whatever the interleaving of charge release, interval ticks, launch
\* timeouts and toggling
C33_LaunchNeedsAmmo ==
    [][ LaunchedNow =>
          gameState.projectileCounts[projectiles'[Len(projectiles')].projectileType] >= 1 ]_vars

\* handleLaunchProjectile called by a launch timeout
DelegateLaunched == AutoTimeout /\ (LaunchedNow \/ gameState' # gameState)

\* performDelegateAction aimed and scheduled a launch
DelegateAimed == Len(delegate'.timeouts) > Len(delegate.timeouts)

\* The firing interval runs only while auto-play is on, no overlay is open and
\* the rendered level is neither won nor over
C37_State ==
    delegate.interval =>
        /\ delegate.active
        /\ ~delegate.overlay
        /\ ~rendered.gameState.isGameOver
        /\ ~rendered.gameState.isLevelWon

C37_Step ==
    /\ DelegateLaunched =>
          delegate.active /\ ~gameState.isGameOver /\ ~gameState.isLevelWon
    /\ (AutoTick \/ DelegateAimed) =>
          /\ delegate'.active /\ ~delegate.overlay
          /\ ~gameState.isGameOver /\ ~gameState.isLevelWon

\* C37: auto-play launches only if, when the 300 ms timeout fires, auto-play
\* is still on and the level is neither won nor over; switching auto-play off,
\* winning, game over and opening the editor or the library stop the 2500 ms
\* interval, so no tick fires and nothing is aimed after any of them
C37_AutoPlayStops == []C37_State /\ [][C37_Step]_vars

\* A launch is still pending when the level has been won: auto-play is on and
\* its interval has been cleared
C37_Witness ==
    /\ delegate.active
    /\ ~delegate.interval
    /\ delegate.timeouts # << >>
    /\ rendered.gameState.isLevelWon

-----------------------------------------------------------------------------
(* The structure after a restart.  setupLevel renews the session; the canvas
   is rebuilt only by React, when the key of GameCanvas (level index and level
   id) or its initialLevelConfig changes. *)

\* The render that follows setupLevel: the session it renders is a fresh one
\* and differs from the last render in more than the selected type
RestartRendered ==
    /\ Commit
    /\ gameState.score = 0
    /\ gameState.projectileCounts = GetDefaultProjectileCounts
    /\ ~gameState.isLevelWon
    /\ ~gameState.isGameOver
    /\ fallenBlockIds = {}
    /\ \/ rendered.fallenBlockIds # {}
       \/ [rendered.gameState EXCEPT
              !.selectedProjectileType = gameState.selectedProjectileType,
              !.projectilesLeft = gameState.projectilesLeft] # gameState

\* C34: once a level (re)start has been rendered, reset on the first level
\* included, the structure is the one createStructure builds for the level:
\* every block unfallen at its initial position
C34_RestartRebuildsStructure ==
    [][ RestartRendered =>
          physicsObjects' = CreateStructure(PlayableLevels[gameState.currentLevelIndex + 1]) ]_vars

-----------------------------------------------------------------------------
(* Scoring.  The onBlockFallen calls of one frame are all made before React
   renders: each reads the gameStateRef and the fallenBlockIds of the render
   before the frame. *)

\* The points of the events from the k-th on, when an event counts only while
\* neither flag is set and its block is not among `ids`, and the golden block's
\* event sets level-won
RECURSIVE PointsUntilClosed(_, _, _, _)
PointsUntilClosed(events, k, ids, closed) ==
    IF k > Len(events) \/ closed THEN 0
    ELSE IF events[k][1] \in ids THEN PointsUntilClosed(events, k + 1, ids, closed)
    ELSE (IF events[k][2] THEN POINTS_PER_KING ELSE POINTS_PER_BLOCK)
         + PointsUntilClosed(events, k + 1, ids \cup {events[k][1]}, events[k][2])

\* C35: a frame's block-fallen events add 10 points per ordinary block and 100
\* per golden block, once per block of the level, and events that come once
\* level-won or game-over is set leave the score and the flags unchanged
C35_ScoreOncePerBlock ==
    [][ SessionFrame =>
          /\ gameState'.score = gameState.score
                + PointsUntilClosed(fallenEvents', 1, fallenBlockIds,
                                    gameState.isLevelWon \/ gameState.isGameOver)
          /\ (gameState.isLevelWon \/ gameState.isGameOver) =>
                /\ gameState'.isLevelWon = gameState.isLevelWon
                /\ gameState'.isGameOver = gameState.isGameOver ]_vars

-----------------------------------------------------------------------------
(* The advance to the next level.  The 1500 ms timer of the auto-advance
   effect fires unless the effect's cleanup clears it, and React renders every
   queued update: both are weakly fair. *)

MaxAdvanceLaunches == 4   \* launchProjectile calls explored per run of the advance

AdvanceRelease ==
    /\ Settled
    /\ projectiles = << >>
    /\ nextProjId <= MaxAdvanceLaunches
    /\ HandleChargeComplete(MAX_LAUNCH_POWER, FALSE)
    /\ UNCHANGED <<chargeVars, customLevels, delegate>>

NextAdvance == SessionFrame \/ AdvanceRelease \/ ResetGame \/ Advance \/ Commit

SpecAdvance == InitApp /\ [][NextAdvance]_vars /\ WF_vars(Advance) /\ WF_vars(Commit)

\* The golden block of level i has been toppled and another level follows
WonLevel(i) ==
    /\ gameState.isLevelWon
    /\ gameState.currentLevelIndex = i
    /\ i < Len(PlayableLevels) - 1

\* The golden block of the last level is down: the game is over
C38_State ==
    (gameState.isLevelWon /\ OnLastLevel(gameState)) => gameState.isGameOver

\* The level index moves up only by the timer, one level at a time, from a
\* won level that is not over; from the last level it only goes back to 0
C38_Step ==
    /\ Advance => /\ rendered.gameState.isLevelWon /\ ~rendered.gameState.isGameOver
                  /\ gameState'.currentLevelIndex = gameState.currentLevelIndex + 1
    /\ gameState'.currentLevelIndex > gameState.currentLevelIndex => Advance
    /\ OnLastLevel(gameState) => gameState'.currentLevelIndex \in {gameState.currentLevelIndex, 0}

-----------------------------------------------------------------------------
(* projectilesLeft, the count shown for the selected type *)

\* projectilesLeft is the count of the selected type
LeftMatchesSelected(gs) == gs.projectilesLeft = gs.projectileCounts[gs.selectedProjectileType]

C39_State == LeftMatchesSelected(gameState) /\ LeftMatchesSelected(rendered.gameState)

\* The selection moves only to a type that has ammunition left
C39_Step ==
    gameState'.selectedProjectileType # gameState.selectedProjectileType =>
        gameState.projectileCounts[gameState'.selectedProjectileType] > 0

\* C39: with playable levels, projectilesLeft equals
\* projectileCounts[selectedProjectileType] in every session state, through
\* launch, select and level setup, and a select changes the selection only to
\* a type with ammunition left
C39_LeftMatchesSelected == []C39_State /\ [][C39_Step]_vars

\* On the second level, after a setup, a select and a launch: one of the two
\* cluster projectiles is left and selected
C39_Witness ==
    /\ Settled
    /\ gameState.currentLevelIndex = 1
    /\ gameState.selectedProjectileType = "CLUSTER"
    /\ gameState.projectileCounts["CLUSTER"] = CLUSTER_DEFAULT_COUNT - 1
    /\ gameState.projectilesLeft = CLUSTER_DEFAULT_COUNT - 1

-----------------------------------------------------------------------------
(* The canvas re-initialised in place.  When initialLevelConfig changes under
   the same key, the init effect runs its cleanup and then init(levelConfig)
   on the same component instance: the refs of the instance keep their
   values. *)

\* The init effect re-run for a new initialLevelConfig: the cleanup of the old
\* init, then init(levelConfig); isChargingActiveRef, chargeStartTimeRef and
\* isDraggingCameraRef are written by neither
Reinit(levelConfig) ==
    /\ mounted
    /\ physicsObjects' = CreateStructure(levelConfig)
    /\ projectiles' = << >>
    /\ explosionParticleSystems' = << >>
    /\ worldBodies' = AddEach(EmptyRegistry, BlockHandles(CreateStructure(levelConfig))).bodies
    /\ sceneMeshes' = AddEach(EmptyRegistry, BlockHandles(CreateStructure(levelConfig))).meshes
    /\ resetLog' = << >>
    /\ frameRafPending' = TRUE
    /\ lastCallTime' = now
    /\ fallenEvents' = << >>
    /\ removedParents' = << >>
    /\ emitted' = [id \in DOMAIN emitted |-> 0]
    /\ blasts' = << >>
    /\ chargeRafPending' = StopCharge(chargeRafPending)
    /\ upListening' = FALSE
    /\ UNCHANGED <<mounted, now, nextProjId, explosionLog, spawnCount, isChargingActive,
                   chargeStartTime, isDraggingCameraRef, chargeProgress, chargeComplete,
                   canAttemptChargeRef, isDelegateModeActiveRef, chargeStarts,
                   chargeCompletes, lastPointerEvent>>

ReinitLevel == (\E levelConfig \in {LevelKing, LevelSphereCube} : Reinit(levelConfig)) /\ UNCHANGED appVars

NextReinit == LoopPress \/ LoopTick \/ LoopRelease \/ LoopFrame \/ ReinitLevel

SpecReinit == Init /\ [][NextReinit]_vars

====
